---- MODULE Spec2Model ----
(***************************************************************************)
(* Air-quality backend: the model trainer's winner selection               *)
(* (src/src/models/train_rf.py) and the data processor                     *)
(* (src/back/src/data/processors.py).                                      *)
(*                                                                         *)
(* Numbers.  Python floats are modelled as fixed-point integers: the       *)
(* integer x stands for the real x / Unit.  A division rounds to the       *)
(* nearest multiple of 1/Unit (a float rounds to the nearest double).      *)
(* NaN (a missing value) and +inf are two integers outside the range of    *)
(* every value the model computes; every operator that can meet a NaN      *)
(* tests for it first, as numpy does.                                      *)
(***************************************************************************)
EXTENDS Integers, Sequences, FiniteSets, TLC

VARIABLES
    \* train_and_evaluate_models (train_rf.py)
    models,              \* dict name -> {'model', 'metrics'}, in insertion order ModelOrder
    pending,             \* the items of models.items() the selection loop has not visited
    best_model_name,     \* local of the selection loop
    best_rmse,           \* local of the selection loop
    result,              \* the dict the function returns
    tphase,              \* position in train_and_evaluate_models
    \* main and save_model_artifacts (train_rf.py)
    samples,             \* args.samples
    output_dir,          \* the files of args.output_dir: name -> what was written, and by which run
    mphase,              \* position in main
    \* DataProcessor (processors.py) and the settings object it reads
    settings,            \* MISSING_VALUE_STRATEGY, OUTLIER_DETECTION_METHOD, FEATURE_SCALING_METHOD
    scalers,             \* self.scalers
    imputers,            \* self.imputers
    outlier_detectors,   \* self.outlier_detectors
    feature_stats,       \* self.feature_stats
    fitted,              \* a process_dataframe(fit_transformers=True) call has returned
    call,                \* the process_dataframe call that returned last, until its result is released
    file,                \* the file save_transformers writes
    restored,            \* a second, fresh DataProcessor, which loads the file
    \* one outlier step of the DataProcessor applied to one series
    step,                \* the series and index given, the series returned (or the error raised)
    \* DataCollectionManager (collectors.py) and its two callers
    cities,              \* the city names collect_multiple_cities is called with
    cphase,              \* position in collect_multiple_cities and its caller
    next_city,           \* position in tasks of the coroutine being awaited
    city,                \* the collect_city_data call in progress: position and its results dict
    stations_cache,      \* self.inmet.stations_cache holds stations
    cresults,            \* results of collect_multiple_cities
    started,             \* positions in tasks whose collect_city_data has started running
    finished,            \* positions in tasks whose collect_city_data has returned
    outcomes,            \* per city name collected, the sources whose call failed and those that answered rows
    locations,           \* a get_locations call: the answer of the API and the value returned
    consumed,            \* what collect_training_data / collect_combined_data made of the results
    \* BaseModel and its subclasses (base.py, train_model.py)
    instance,            \* a model object: its attributes, and the methods that completed on it
    filepath,            \* the file save writes and load reads
    called,              \* the method called last on the object, and whether it raised
    \* ModelManager (base.py)
    manager,             \* models, current_model, and the last message load_models logged
    prediction,          \* the last ModelManager.predict call: its input and what came of it
    \* the API (routes, schemas)
    app_state,           \* the attributes set on app.state
    metadata_file,       \* what models/production/model.metadata.json holds
    request,             \* the request being answered
    response,            \* the status code and the body of the answer
    \* FeatureEngineer (processors.py) and prepare_training_data (train_model.py)
    pm25,                \* the 'pm25' column of a table
    pm25_category,       \* the 'pm25_category' column create_pollution_features adds
    prepared             \* the table given to prepare_training_data, and the X and y it returns

trainVars == <<models, pending, best_model_name, best_rmse, result, tphase>>
mainVars == <<samples, output_dir, mphase>>
procVars == <<settings, scalers, imputers, outlier_detectors, feature_stats, fitted, call,
              file, restored>>
stepVars == <<step>>
collVars == <<cities, cphase, next_city, city, stations_cache, cresults, started, finished,
              outcomes, locations, consumed>>
baseVars == <<instance, filepath, called>>
managerVars == <<manager, prediction>>
apiVars == <<app_state, metadata_file, request, response>>
featVars == <<pm25, pm25_category, prepared>>
restVars == <<managerVars, apiVars, featVars>>
vars == <<models, pending, best_model_name, best_rmse, result, tphase,
          samples, output_dir, mphase,
          settings, scalers, imputers, outlier_detectors, feature_stats, fitted, call,
          file, restored, step,
          cities, cphase, next_city, city, stations_cache, cresults, started, finished,
          outcomes, locations, consumed,
          instance, filepath, called,
          manager, prediction, app_state, metadata_file, request, response,
          pm25, pm25_category, prepared>>

\* what the actions of one part leave alone
otherThanTrain == <<mainVars, procVars, stepVars, collVars, baseVars, restVars>>
otherThanMain == <<trainVars, procVars, stepVars, collVars, baseVars, restVars>>
otherThanProc == <<trainVars, mainVars, stepVars, collVars, baseVars, restVars>>
otherThanSteps == <<trainVars, mainVars, procVars, collVars, baseVars, restVars>>
otherThanColl == <<trainVars, mainVars, procVars, stepVars, baseVars, restVars>>
otherThanBase == <<trainVars, mainVars, procVars, stepVars, collVars, restVars>>
otherThanManager == <<trainVars, mainVars, procVars, stepVars, collVars, apiVars, featVars>>
otherThanApi == <<trainVars, mainVars, procVars, stepVars, collVars, baseVars, managerVars,
                  featVars>>
otherThanFeat == <<trainVars, mainVars, procVars, stepVars, collVars, baseVars, managerVars,
                   apiVars>>

----------------------------------------------------------------------------
(* Bounds of the model *)

\* resolution of the fixed-point numbers: x stands for x / Unit
Unit == 100
\* test RMSE outcomes range over 0..MaxRmse (in whole units) and +inf
MaxRmse == 4
\* input tables have MaxRows rows
MaxRows == 4
\* the series given to the z-score step have ZLen rows (with fewer than 11
\* values no |z| exceeds 3)
ZLen == 12
\* collect_multiple_cities is called with up to MaxCities cities
MaxCities == 2

----------------------------------------------------------------------------
(* Floats *)

NaN == -(2^30)
Inf == 2^30

Abs(x) == IF x < 0 THEN -x ELSE x

\* a / b for b > 0, rounded to the nearest integer
RDiv(a, b) == (2 * a + b) \div (2 * b)

RECURSIVE SqrtBetween(_, _, _)
SqrtBetween(n, lo, hi) ==
    IF hi - lo <= 1 THEN lo
    ELSE LET mid == (lo + hi) \div 2
         IN  IF mid * mid <= n THEN SqrtBetween(n, mid, hi)
             ELSE SqrtBetween(n, lo, mid)

\* floor of the square root of n >= 0
Sqrt(n) == SqrtBetween(n, 0, 46341)

\* a dict with no key
EmptyDict == [k \in {} |-> 0]

\* d[k] = v
Put(d, k, v) == [x \in DOMAIN d \cup {k} |-> IF x = k THEN v ELSE d[x]]

----------------------------------------------------------------------------
(* train_and_evaluate_models: the candidates and the selection of the winner *)

\* Python dicts keep insertion order: models['LinearRegression'] is set first
ModelOrder == <<"LinearRegression", "RandomForest">>

Candidates == {ModelOrder[i] : i \in 1..Len(ModelOrder)}

\* Python's None
None == "None"

\* float(np.sqrt(mean_squared_error(...))): sklearn rejects non-finite inputs, so
\* the value is a finite number >= 0 or, when the squared error overflows, +inf
RmseValues == {r * Unit : r \in 0..MaxRmse} \cup {Inf}

FittedEstimator(name) == IF name = "LinearRegression" THEN "lr_model" ELSE "rf_model"

\* lines 81-88: the columns of the table generate_synthetic_data builds
FeatureColumns ==
    <<"temperatura", "umidade", "vento_velocidade", "vento_direcao", "precipitacao",
      "pressao_atmosferica">>

\* args.samples: a negative number, too few rows to split, enough rows
SampleCounts == {-1, 0, 1, 5, 10}

\* train_test_split(test_size=0.2): ceil(0.2 * n) rows for the test
TestSamples(n) == (n + 4) \div 5

TrainSamples(n) == n - TestSamples(n)

\* datetime.utcnow().isoformat() at the end of the training
Timestamps == {"2025-01-01T10:00:00", "2025-01-01T10:00:01"}

\* the StandardScaler fitted on X_train (lines 120-122)
FittedScaler == "scaler"

NoResult == [model |-> None, scaler |-> None, feature_names |-> <<>>, winner |-> None,
             metrics |-> EmptyDict, training_samples |-> 0, test_samples |-> 0,
             trained_at |-> None]

\* lines 54 and 113-115: np.random.normal rejects a negative size, and
\* train_test_split a table whose train set would be empty; main's except
\* takes over
NoTrainingData ==
    /\ tphase = "start"
    /\ samples < 0 \/ TrainSamples(samples) = 0
    /\ tphase' = "aborted"
    /\ UNCHANGED <<models, pending, best_model_name, best_rmse, result>>
    /\ UNCHANGED otherThanTrain

\* lines 128-182: both candidates are fitted and scored
TrainCandidates ==
    /\ tphase = "start"
    /\ samples >= 0 /\ TrainSamples(samples) > 0
    /\ \E lr \in RmseValues, rf \in RmseValues :
         models' = [n \in Candidates |->
                      [model |-> FittedEstimator(n),
                       metrics |-> [test_rmse |-> IF n = "LinearRegression" THEN lr ELSE rf]]]
    /\ tphase' = "trained"
    /\ UNCHANGED <<pending, best_model_name, best_rmse, result>>
    /\ UNCHANGED otherThanTrain

\* lines 187-188
StartSelection ==
    /\ tphase = "trained"
    /\ best_model_name' = None
    /\ best_rmse' = Inf
    /\ pending' = ModelOrder
    /\ tphase' = "selecting"
    /\ UNCHANGED <<models, result>>
    /\ UNCHANGED otherThanTrain

\* line 192: test_rmse < best_rmse
Better(test_rmse, best) == test_rmse < best

\* lines 190-194: one iteration of the loop over models.items()
SelectStep ==
    /\ tphase = "selecting"
    /\ pending # <<>>
    /\ LET model_name == Head(pending)
           test_rmse == models[model_name].metrics.test_rmse
       IN  IF Better(test_rmse, best_rmse)
           THEN /\ best_rmse' = test_rmse
                /\ best_model_name' = model_name
           ELSE UNCHANGED <<best_rmse, best_model_name>>
    /\ pending' = Tail(pending)
    /\ UNCHANGED <<models, result, tphase>>
    /\ UNCHANGED otherThanTrain

\* a mutant of WinnerData: the loop variable left over after the loop
WinnerDataLoopVariable(ms, name) == ms[ModelOrder[Len(ModelOrder)]]

\* line 199: winner_data = models[best_model_name]
WinnerData(ms, name) == ms[name]

\* lines 199-215: models[None] raises KeyError when no candidate was selected
BuildResult ==
    /\ tphase = "selecting"
    /\ pending = <<>>
    /\ IF best_model_name \in DOMAIN models
       THEN LET winner_data == WinnerData(models, best_model_name)
            IN  /\ \E now \in Timestamps :
                     result' = [model |-> winner_data.model,
                                scaler |-> FittedScaler,
                                feature_names |-> FeatureColumns,
                                winner |-> best_model_name,
                                metrics |-> Put(Put(EmptyDict, best_model_name,
                                                    winner_data.metrics),
                                                "all_models",
                                                [n \in DOMAIN models |-> models[n].metrics]),
                                training_samples |-> TrainSamples(samples),
                                test_samples |-> TestSamples(samples),
                                trained_at |-> now]
                /\ tphase' = "returned"
       ELSE /\ result' = NoResult
            /\ tphase' = "raised"
    /\ UNCHANGED <<models, pending, best_model_name, best_rmse>>
    /\ UNCHANGED otherThanTrain

----------------------------------------------------------------------------
(* main and save_model_artifacts: the two files of the output directory *)

ThisRun == "this run"

PreviousRun == "an earlier run"

\* a file: the run that wrote it, whether the write went through, its content
WrittenFile(run, content) == [run |-> run, complete |-> TRUE, content |-> content]

\* a file opened for writing whose write did not go through
PartialFile(run) == [run |-> run, complete |-> FALSE, content |-> None]

\* lines 231-235: joblib_data
JoblibData(model_data) ==
    [model |-> model_data.model,
     scaler |-> model_data.scaler,
     feature_names |-> model_data.feature_names]

\* a mutant of Metadata: the winner is the candidate trained last
MetadataOfLastCandidate(model_data) ==
    [winner |-> ModelOrder[Len(ModelOrder)],
     metrics |-> model_data.metrics,
     features |-> model_data.feature_names,
     trained_at |-> model_data.trained_at,
     training_samples |-> model_data.training_samples,
     test_samples |-> model_data.test_samples]

\* lines 241-248: metadata
Metadata(model_data) ==
    [winner |-> model_data.winner,
     metrics |-> model_data.metrics,
     features |-> model_data.feature_names,
     trained_at |-> model_data.trained_at,
     training_samples |-> model_data.training_samples,
     test_samples |-> model_data.test_samples]

\* what an earlier successful run returned
PreviousResult ==
    [model |-> FittedEstimator("RandomForest"),
     scaler |-> FittedScaler,
     feature_names |-> FeatureColumns,
     winner |-> "RandomForest",
     metrics |-> Put(Put(EmptyDict, "RandomForest", [test_rmse |-> Unit]),
                     "all_models", [n \in Candidates |-> [test_rmse |-> Unit]]),
     training_samples |-> TrainSamples(10),
     test_samples |-> TestSamples(10),
     trained_at |-> "2024-12-31T09:00:00"]

\* the output directory an earlier successful run left
PreviousArtifacts ==
    Put(Put(EmptyDict, "model.joblib", WrittenFile(PreviousRun, JoblibData(PreviousResult))),
        "model.metadata.json", WrittenFile(PreviousRun, Metadata(PreviousResult)))

\* how a write can end: written, the file could not be opened, or it was
\* opened (created or truncated) and the write failed
WriteOutcomes == {"written", "not_opened", "partial"}

\* the directory after a write of content to the file name
AfterWrite(dir, name, content, outcome) ==
    CASE outcome = "written" -> Put(dir, name, WrittenFile(ThisRun, content))
      [] outcome = "partial" -> Put(dir, name, PartialFile(ThisRun))
      [] outcome = "not_opened" -> dir

\* lines 280-283 and 308-310: generate_synthetic_data or
\* train_and_evaluate_models raised; main logs the error and exits with 1
AbortTraining ==
    /\ mphase = "training"
    /\ tphase \in {"aborted", "raised"}
    /\ mphase' = "exited"
    /\ UNCHANGED <<samples, output_dir>>
    /\ UNCHANGED otherThanMain

\* line 227: output_path.mkdir(parents=True, exist_ok=True)
MakeOutputDir ==
    /\ mphase = "training"
    /\ tphase = "returned"
    /\ \E created \in BOOLEAN : mphase' = IF created THEN "dir" ELSE "exited"
    /\ UNCHANGED <<samples, output_dir>>
    /\ UNCHANGED otherThanMain

\* line 236: joblib.dump(joblib_data, model_path); an exception goes to
\* main's except (lines 308-310), which removes nothing
DumpModel ==
    /\ mphase = "dir"
    /\ \E outcome \in WriteOutcomes :
         /\ output_dir' = AfterWrite(output_dir, "model.joblib", JoblibData(result), outcome)
         /\ mphase' = IF outcome = "written" THEN "model_saved" ELSE "exited"
    /\ UNCHANGED samples
    /\ UNCHANGED otherThanMain

\* lines 250-251: open(metadata_path, 'w') and json.dump(metadata, f)
WriteMetadata ==
    /\ mphase = "model_saved"
    /\ \E outcome \in WriteOutcomes :
         /\ output_dir' = AfterWrite(output_dir, "model.metadata.json", Metadata(result),
                                     outcome)
         /\ mphase' = IF outcome = "written" THEN "saved" ELSE "exited"
    /\ UNCHANGED samples
    /\ UNCHANGED otherThanMain

MainInitFixed ==
    /\ samples = 10
    /\ output_dir = EmptyDict
    /\ mphase = "training"

----------------------------------------------------------------------------
(* pandas Series: a sequence of numbers, NaN marking a missing value *)

\* series.isna().sum() > 0
HasNaN(s) == \E i \in 1..Len(s) : s[i] = NaN

\* series.dropna().values
Valid(s) == SelectSeq(s, LAMBDA x : x # NaN)

RECURSIVE Sum(_)
Sum(s) == IF s = <<>> THEN 0 ELSE Head(s) + Sum(Tail(s))

RECURSIVE SumSquares(_)
SumSquares(s) == IF s = <<>> THEN 0 ELSE Head(s) * Head(s) + SumSquares(Tail(s))

RECURSIVE Insert(_, _)
Insert(x, s) ==
    IF s = <<>> THEN <<x>>
    ELSE IF x <= Head(s) THEN <<x>> \o s
    ELSE <<Head(s)>> \o Insert(x, Tail(s))

RECURSIVE Sort(_)
Sort(s) == IF s = <<>> THEN <<>> ELSE Insert(Head(s), Sort(Tail(s)))

\* series.mean(): NaN skipped, NaN when nothing is left
SeriesMean(s) ==
    LET v == Valid(s)
    IN  IF v = <<>> THEN NaN ELSE RDiv(Sum(v), Len(v))

\* series.quantile(num / den): linear interpolation between the order statistics
Quantile(s, num, den) ==
    LET v == Sort(Valid(s))
        n == Len(v)
        pos == num * (n - 1)
        lo == pos \div den
        rem == pos % den
    IN  IF n = 0 THEN NaN
        ELSE IF rem = 0 THEN v[lo + 1]
        ELSE v[lo + 1] + RDiv(rem * (v[lo + 2] - v[lo + 1]), den)

\* series.median()
Median(s) == Quantile(s, 1, 2)

\* population standard deviation (ddof = 0) of the values present
StdDev(s) ==
    LET v == Valid(s)
        n == Len(v)
    IN  RDiv(Sqrt(n * SumSquares(v) - Sum(v) * Sum(v)), n)

Count(s, x) == Cardinality({i \in 1..Len(s) : s[i] = x})

\* the most frequent value present, the smallest one on a tie (scipy.stats.mode)
Mode(s) ==
    LET v == Valid(s)
        vals == {v[i] : i \in 1..Len(v)}
        best == {x \in vals : \A y \in vals : Count(v, y) <= Count(v, x)}
    IN  IF v = <<>> THEN NaN
        ELSE CHOOSE x \in best : \A y \in best : x <= y

SeriesMin(s) == LET v == Sort(Valid(s)) IN v[1]
SeriesMax(s) == LET v == Sort(Valid(s)) IN v[Len(v)]

\* series.fillna(value); fillna(NaN) fills nothing
FillNa(s, value) == [i \in 1..Len(s) |-> IF s[i] = NaN THEN value ELSE s[i]]

\* series.interpolate(method='linear'): equally spaced, forward only: a gap
\* after the last value present takes that value, a gap before the first stays
Interpolate(s) ==
    [i \in 1..Len(s) |->
        IF s[i] # NaN THEN s[i]
        ELSE LET before == {j \in 1..(i - 1) : s[j] # NaN}
                 after == {j \in (i + 1)..Len(s) : s[j] # NaN}
             IN  IF before = {} THEN NaN
                 ELSE LET a == CHOOSE j \in before : \A k \in before : k <= j
                      IN  IF after = {} THEN s[a]
                          ELSE LET b == CHOOSE j \in after : \A k \in after : j <= k
                               IN  s[a] + RDiv((i - a) * (s[b] - s[a]), b - a)]

\* a mutant of Clip: only the upper bound is applied
ClipAbove(s, lower, upper) ==
    [i \in 1..Len(s) |->
        IF s[i] = NaN THEN NaN
        ELSE IF upper # NaN /\ s[i] > upper THEN upper
        ELSE s[i]]

\* series.clip(lower, upper); a NaN bound does not bound
Clip(s, lower, upper) ==
    [i \in 1..Len(s) |->
        IF s[i] = NaN THEN NaN
        ELSE IF lower # NaN /\ s[i] < lower THEN lower
        ELSE IF upper # NaN /\ s[i] > upper THEN upper
        ELSE s[i]]

----------------------------------------------------------------------------
(* DataProcessor: the per-column steps.  Each returns err (the step raised), *)
(* the series it returns and the dict it may have written.                  *)

\* a mutant of StoreIfFit: the fitted transformer is kept whatever the flag
StoreAlways(d, column_name, transformer, fit_transformer) == Put(d, column_name, transformer)

\* "if fit_transformer: self.<dict>[column_name] = <transformer>"
\* (lines 161-162, 167-168, 264-265, 313-314)
StoreIfFit(d, column_name, transformer, fit_transformer) ==
    IF fit_transformer THEN Put(d, column_name, transformer) ELSE d

\* SimpleImputer(strategy).statistics_ of a one-column fit; KNNImputer on one
\* column has no other feature to measure a distance on and falls back to the
\* column mean of the fitted data
ImputerStatistic(strategy, s) ==
    CASE strategy = "mean" -> SeriesMean(s)
      [] strategy = "median" -> Median(s)
      [] strategy = "most_frequent" -> Mode(s)
      [] strategy = "knn" -> SeriesMean(s)

HandleMissingValues(series, column_name, fit_transformer, imps) ==
    IF ~HasNaN(series)
    THEN [err |-> FALSE, s |-> series, d |-> imps]
    ELSE LET strategy == settings.missing
         IN  IF fit_transformer \/ column_name \notin DOMAIN imps
             THEN IF strategy = "interpolate"
                  THEN [err |-> FALSE,
                        s |-> FillNa(Interpolate(series), SeriesMean(series)),
                        d |-> imps]
                  ELSE IF strategy \in {"mean", "median", "most_frequent", "knn"}
                  THEN LET imputer == [strategy |-> strategy,
                                       statistic |-> ImputerStatistic(strategy, series)]
                       IN  \* a column with no value present is dropped by
                           \* fit_transform: pd.Series(<0 values>, index=<n labels>) raises
                           IF imputer.statistic = NaN
                           THEN [err |-> TRUE, s |-> series, d |-> imps]
                           ELSE [err |-> FALSE,
                                 s |-> FillNa(series, imputer.statistic),
                                 d |-> StoreIfFit(imps, column_name, imputer, fit_transformer)]
                  ELSE [err |-> FALSE, s |-> series, d |-> imps]
             ELSE LET imputer == imps[column_name]
                  IN  [err |-> FALSE, s |-> FillNa(series, imputer.statistic), d |-> imps]

\* factor = 1.5: factor * IQR = 3 * IQR / 2
HandleOutliersIqr(series) ==
    LET Q1 == Quantile(series, 1, 4)
        Q3 == Quantile(series, 3, 4)
        IQR == Q3 - Q1
        lower_bound == IF Q1 = NaN THEN NaN ELSE Q1 - RDiv(3 * IQR, 2)
        upper_bound == IF Q3 = NaN THEN NaN ELSE Q3 + RDiv(3 * IQR, 2)
    IN  Clip(series, lower_bound, upper_bound)

\* series_clean.iloc[labels] = value: the index labels of the flagged rows are
\* used as positions (a negative one counts from the end); err when one is out
\* of range (IndexError)
SetILoc(series, labels, value) ==
    LET n == Len(series)
        pos(l) == IF l >= 0 THEN l + 1 ELSE n + l + 1
    IN  IF \E l \in labels : l >= n \/ l < -n
        THEN [err |-> TRUE, s |-> series]
        ELSE [err |-> FALSE,
              s |-> [i \in 1..n |-> IF \E l \in labels : pos(l) = i THEN value ELSE series[i]]]

\* |z| > 3 with z = (x - mean) / std over the values present, std the
\* population deviation: n*x - sum and n*sumsq - sum^2 are n*(x - mean) and
\* n^2*var, compared without a division; std = 0 gives NaN, which is not > 3
ZScoreAbove3(v, x) ==
    LET n == Len(v)
        d == n * x - Sum(v)
    IN  (d * d - 1) \div 9 >= n * SumSquares(v) - Sum(v) * Sum(v)

HandleOutliersZscore(series, index) ==
    LET present == {i \in 1..Len(series) : series[i] # NaN}
        v == Valid(series)
        flagged == {i \in present : ZScoreAbove3(v, series[i])}
    IN  IF flagged # {}
        THEN SetILoc(series, {index[i] : i \in flagged}, Median(series))
        ELSE [err |-> FALSE, s |-> series]

\* IsolationForest(contamination=0.1, random_state=42).fit(valid_data).  The
\* forest itself is sklearn's and is not computed here: a fitted detector is
\* the sample's range and the side of it the forest isolates, and that side
\* (region: "none", "lower" or "upper") is an input of the call.
FitDetector(valid_data, region) ==
    [region |-> region, lo |-> SeriesMin(valid_data), hi |-> SeriesMax(valid_data)]

\* detector.predict(x) = -1
Anomaly(detector, x) ==
    /\ detector.lo < detector.hi
    /\ \/ detector.region = "upper" /\ x >= detector.hi
       \/ detector.region = "lower" /\ x <= detector.lo

HandleOutliersIsolationForest(series, index, column_name, fit_transformer, dets, region) ==
    LET refit == fit_transformer \/ column_name \notin DOMAIN dets
        valid_data == Valid(series)
    IN  IF refit /\ valid_data = <<>>
        THEN [err |-> FALSE, s |-> series, d |-> dets]
        ELSE LET detector == IF refit THEN FitDetector(valid_data, region)
                             ELSE dets[column_name]
                 dets2 == IF refit
                          THEN StoreIfFit(dets, column_name, detector, fit_transformer)
                          ELSE dets
                 flagged == {i \in 1..Len(series) :
                               series[i] # NaN /\ Anomaly(detector, series[i])}
             IN  IF flagged # {}
                 THEN LET r == SetILoc(series, {index[i] : i \in flagged}, Median(series))
                      IN  [err |-> r.err, s |-> r.s, d |-> dets2]
                 ELSE [err |-> FALSE, s |-> series, d |-> dets2]

HandleOutliers(series, index, column_name, fit_transformer, dets, region) ==
    LET method == settings.outlier
    IN  IF method = "iqr"
        THEN [err |-> FALSE, s |-> HandleOutliersIqr(series), d |-> dets]
        ELSE IF method = "zscore"
        THEN LET r == HandleOutliersZscore(series, index)
             IN  [err |-> r.err, s |-> r.s, d |-> dets]
        ELSE IF method = "isolation_forest"
        THEN HandleOutliersIsolationForest(series, index, column_name,
                                           fit_transformer, dets, region)
        ELSE [err |-> FALSE, s |-> series, d |-> dets]

\* sklearn's _handle_zeros_in_scale: a zero scale becomes 1
NonZeroScale(scale) == IF scale = 0 THEN Unit ELSE scale

\* StandardScaler / MinMaxScaler / RobustScaler fitted on the values present:
\* transform(x) = (x - center) / scale
FitScaler(method, valid_data) ==
    CASE method = "standard" ->
           [method |-> method, center |-> SeriesMean(valid_data),
            scale |-> NonZeroScale(StdDev(valid_data))]
      [] method = "minmax" ->
           [method |-> method, center |-> SeriesMin(valid_data),
            scale |-> NonZeroScale(SeriesMax(valid_data) - SeriesMin(valid_data))]
      [] method = "robust" ->
           [method |-> method, center |-> Median(valid_data),
            scale |-> NonZeroScale(Quantile(valid_data, 3, 4) - Quantile(valid_data, 1, 4))]

\* scaler.transform(series): a NaN stays a NaN
ScalerTransform(scaler, series) ==
    [i \in 1..Len(series) |->
        IF series[i] = NaN THEN NaN
        ELSE RDiv((series[i] - scaler.center) * Unit, scaler.scale)]

ScaleFeature(series, column_name, fit_transformer, scs) ==
    LET method == settings.scaling
        refit == fit_transformer \/ column_name \notin DOMAIN scs
        valid_data == Valid(series)
    IN  IF refit /\ method \notin {"standard", "minmax", "robust"}
        THEN [err |-> FALSE, s |-> series, d |-> scs]
        ELSE IF refit /\ valid_data = <<>>
        THEN [err |-> FALSE, s |-> series, d |-> scs]
        ELSE LET scaler == IF refit THEN FitScaler(method, valid_data) ELSE scs[column_name]
             IN  [err |-> FALSE,
                  s |-> ScalerTransform(scaler, series),
                  d |-> IF refit THEN StoreIfFit(scs, column_name, scaler, fit_transformer)
                        ELSE scs]

----------------------------------------------------------------------------
(* pandas DataFrame: index labels and named columns, in column order *)

ColumnOrder == <<"temperatura", "umidade", "value", "city", "indice_calor",
                 "temperatura_ma24", "umidade_ma24">>

\* select_dtypes(include=[np.number]) and select_dtypes(include=['object', 'category'])
NumericNames == {"temperatura", "umidade", "value", "indice_calor",
                 "temperatura_ma24", "umidade_ma24"}
CategoricalNames == {"city"}

\* the columns _create_derived_features assigns
DerivedNames == {"indice_calor", "temperatura_ma24", "umidade_ma24"}

NoTable == [index |-> <<>>, cols |-> EmptyDict]

ColumnsOf(df) == SelectSeq(ColumnOrder, LAMBDA c : c \in DOMAIN df.cols)

\* df[column] = series
SetColumn(df, column, series) == [df EXCEPT !.cols = Put(df.cols, column, series)]

\* target_column=None
NoTarget == ""

\* a mutant of CopyFrame: the rows with a missing number are removed
CopyFrameDropna(df) ==
    LET n == Len(df.index)
        keep == {i \in 1..n : \A c \in DOMAIN df.cols \cap NumericNames : df.cols[c][i] # NaN}
        Rows(s) == LET F[i \in 0..n] ==
                           IF i = 0 THEN <<>>
                           ELSE IF i \in keep THEN Append(F[i - 1], s[i]) ELSE F[i - 1]
                   IN  F[n]
    IN  [index |-> Rows(df.index), cols |-> [c \in DOMAIN df.cols |-> Rows(df.cols[c])]]

\* line 50: df_processed = df.copy()
CopyFrame(df) == df

\* lines 53-58: the numeric columns, without the target
NumericColumnsToProcess(df, target_column) ==
    LET numeric_columns == SelectSeq(ColumnsOf(df), LAMBDA c : c \in NumericNames)
    IN  IF target_column # NoTarget /\ \E i \in 1..Len(numeric_columns) : numeric_columns[i] = target_column
        THEN SelectSeq(numeric_columns, LAMBDA c : c # target_column)
        ELSE numeric_columns

\* lines 78-110: the three steps, column after column.  st holds the processor's
\* three dicts; a step that raises leaves what was stored before it.
RECURSIVE ProcessNumericColumns(_, _, _, _, _)

\* lines 106-108: the scaled series replaces the column, the loop (line 89) goes on
ColumnScaled(df, columns, fit_transformers, region, m, o, sc) ==
    ProcessNumericColumns(
        SetColumn(df, Head(columns), sc.s), Tail(columns), fit_transformers, region,
        [imputers |-> m.d, outlier_detectors |-> o.d, scalers |-> sc.d])

\* lines 101-108: the series without outliers is scaled
OutliersHandled(df, columns, fit_transformers, region, st, m, o) ==
    IF o.err
    THEN [err |-> TRUE, df |-> df,
          st |-> [st EXCEPT !.imputers = m.d, !.outlier_detectors = o.d]]
    ELSE ColumnScaled(df, columns, fit_transformers, region, m, o,
                      ScaleFeature(o.s, Head(columns), fit_transformers, st.scalers))

\* lines 96-103: the series without missing values goes through the outlier step
MissingValuesHandled(df, columns, fit_transformers, region, st, m) ==
    IF m.err THEN [err |-> TRUE, df |-> df, st |-> st]
    ELSE OutliersHandled(df, columns, fit_transformers, region, st, m,
                         HandleOutliers(m.s, df.index, Head(columns), fit_transformers,
                                        st.outlier_detectors, region))

ProcessNumericColumns(df, columns, fit_transformers, region, st) ==
    IF columns = <<>> THEN [err |-> FALSE, df |-> df, st |-> st]
    ELSE MissingValuesHandled(df, columns, fit_transformers, region, st,
                              HandleMissingValues(df.cols[Head(columns)], Head(columns),
                                                  fit_transformers, st.imputers))

\* lines 112-135: fillna('unknown')
RECURSIVE ProcessCategoricalColumns(_, _)
ProcessCategoricalColumns(df, columns) ==
    IF columns = <<>> THEN df
    ELSE LET column == Head(columns)
             series == df.cols[column]
             filled == [i \in 1..Len(series) |->
                          IF series[i] = None THEN "unknown" ELSE series[i]]
         IN  ProcessCategoricalColumns(SetColumn(df, column, filled), Tail(columns))

\* series.rolling(window, min_periods=1).mean()
Rolling(series, window) ==
    [i \in 1..Len(series) |->
        SeriesMean(SubSeq(series, IF i - window + 1 < 1 THEN 1 ELSE i - window + 1, i))]

MovingAverageName(column) ==
    IF column = "temperatura" THEN "temperatura_ma24" ELSE "umidade_ma24"

\* lines 326-368.  The tables of the model hold no 'datetime', 'vento_velocidade'
\* or 'vento_direcao' column, so those branches add nothing.
CreateDerivedFeatures(df) ==
    LET n == Len(df.index)
        Has(d, c) == c \in DOMAIN d.cols
        heat == IF Has(df, "temperatura") /\ Has(df, "umidade")
                THEN SetColumn(df, "indice_calor",
                         [i \in 1..n |->
                            IF df.cols["temperatura"][i] = NaN \/ df.cols["umidade"][i] = NaN
                            THEN NaN
                            ELSE RDiv(7 * df.cols["temperatura"][i]
                                      + 3 * df.cols["umidade"][i], 10)])
                ELSE df
        MovingAverage(d, column) ==
            IF Has(d, column) /\ column \in NumericNames /\ n >= 24
            THEN SetColumn(d, MovingAverageName(column), Rolling(d.cols[column], 24))
            ELSE d
    IN  MovingAverage(MovingAverage(heat, "temperatura"), "umidade")

\* lines 66-76: the categorical columns and the derived features, after the
\* numeric columns (num is what _process_numeric_columns left)
NumericColumnsProcessed(num, categorical_columns) ==
    IF num.err THEN [err |-> TRUE, df |-> NoTable, st |-> num.st]
    ELSE [err |-> FALSE,
          df |-> CreateDerivedFeatures(
                     ProcessCategoricalColumns(num.df, categorical_columns)),
          st |-> num.st]

\* lines 31-76: process_dataframe.  Returns err (the call raised), the table
\* it returns and the processor's dicts after it.
ProcessDataframe(df, target_column, fit_transformers, region, st) ==
    NumericColumnsProcessed(
        ProcessNumericColumns(CopyFrame(df),
                              NumericColumnsToProcess(CopyFrame(df), target_column),
                              fit_transformers, region, st),
        SelectSeq(ColumnsOf(CopyFrame(df)), LAMBDA c : c \in CategoricalNames))

----------------------------------------------------------------------------
(* The inputs of the model *)

\* The measurements follow fixed patterns; any set of cells of 'temperatura' may
\* be missing, and 'umidade', 'value' and 'city' have one missing cell each.
TemperaturaAt(i) == IF i = 1 THEN 8 * Unit ELSE IF i % 3 = 0 THEN Unit ELSE 0
UmidadeAt(i) == IF i = 2 THEN NaN ELSE (2 + 2 * (i % 3)) * Unit
ValueAt(i) == IF i = 3 THEN NaN ELSE (7 - 2 * (i % 2)) * Unit
CityAt(i) == IF i = 2 THEN None ELSE "SP"

\* a table of n rows, its index the default RangeIndex 0..n-1
MakeTable(n, missing) ==
    [index |-> [i \in 1..n |-> i - 1],
     cols |-> [c \in {"temperatura", "umidade", "value", "city"} |->
                 IF c = "temperatura"
                 THEN [i \in 1..n |-> IF i \in missing THEN NaN ELSE TemperaturaAt(i)]
                 ELSE IF c = "umidade" THEN [i \in 1..n |-> UmidadeAt(i)]
                 ELSE IF c = "value" THEN [i \in 1..n |-> ValueAt(i)]
                 ELSE [i \in 1..n |-> CityAt(i)]]]

InputTables == {MakeTable(MaxRows, missing) : missing \in SUBSET (1..MaxRows)}

InputTargets == {NoTarget, "value"}

\* the side a fitted isolation forest isolates (see FitDetector)
Regions == {"none", "lower", "upper"}

----------------------------------------------------------------------------
(* The settings object *)

DefaultSettings == [missing |-> "interpolate", outlier |-> "iqr", scaling |-> "standard"]

\* a strategy name the code does not know
UnknownName == "bogus"

MissingStrategies == {"interpolate", "mean", "median", "most_frequent", "knn", "drop"}
OutlierMethods == {"iqr", "zscore", "isolation_forest"}
ScalingMethods == {"standard", "minmax", "robust"}

\* the settings of the model: the defaults with at most one of the three names
\* changed, to another recognised name or to an unknown one
SettingsDomain ==
    {s \in [missing : MissingStrategies \cup {UnknownName},
            outlier : OutlierMethods \cup {UnknownName},
            scaling : ScalingMethods \cup {UnknownName}] :
        Cardinality({f \in {"missing", "outlier", "scaling"} : s[f] # DefaultSettings[f]}) <= 1}

----------------------------------------------------------------------------
(* DataProcessor: the calls *)

IdleCall == [kind |-> "idle", df |-> NoTable, target |-> NoTarget, fit |-> FALSE,
             region |-> "none", out |-> NoTable, again |-> FALSE]

Transformers == [scalers |-> scalers, imputers |-> imputers,
                 outlier_detectors |-> outlier_detectors]

\* the call process_dataframe(df, target_column, fit_transformers) runs to its end
Run(df, target_column, fit_transformers, region, again) ==
    \E r \in {ProcessDataframe(df, target_column, fit_transformers, region, Transformers)} :
        /\ call' = [kind |-> IF r.err THEN "raised" ELSE "returned",
                    df |-> df, target |-> target_column, fit |-> fit_transformers,
                    region |-> region, out |-> r.df, again |-> again]
        /\ scalers' = r.st.scalers
        /\ imputers' = r.st.imputers
        /\ outlier_detectors' = r.st.outlier_detectors
        /\ fitted' = (fitted \/ (fit_transformers /\ ~r.err))
        /\ UNCHANGED <<settings, feature_stats, file, restored>>
        /\ UNCHANGED otherThanProc

\* process_dataframe on an input table.  A processor is fitted once, on the
\* training data, and reused: a call with fit_transformers=True is made on a
\* processor on which no such call has returned yet.
ProcessDataFrame ==
    /\ call.kind = "idle"
    /\ \E df \in InputTables, target_column \in InputTargets, fit_transformers \in BOOLEAN,
          region \in (IF settings.outlier = "isolation_forest" THEN Regions ELSE {"none"}) :
         /\ (fit_transformers => ~fitted)
         /\ Run(df, target_column, fit_transformers, region, FALSE)

\* process_dataframe(fit_transformers=False) on the table the last such call
\* returned, with the same target or with the derived column as the target
ProcessAgain ==
    /\ call.kind = "returned"
    /\ ~call.fit
    /\ ~call.again
    /\ \E target_column \in {call.target} \cup (DOMAIN call.out.cols \cap {"indice_calor"}),
          region \in (IF settings.outlier = "isolation_forest" THEN Regions ELSE {"none"}) :
         Run(call.out, target_column, FALSE, region, TRUE)

\* the caller is done with the returned table (or the exception)
Release ==
    /\ call.kind # "idle"
    /\ call' = IdleCall
    /\ UNCHANGED <<settings, scalers, imputers, outlier_detectors, feature_stats, fitted,
                   file, restored>>
    /\ UNCHANGED otherThanProc

\* joblib.dump / joblib.load of a dict of fitted transformers: the file holds,
\* for each key, the pickled (column name, parameters) items
Pickle(d) == {<<k, d[k]>> : k \in DOMAIN d}
Unpickle(items) == [k \in {item[1] : item \in items} |->
                      (CHOOSE item \in items : item[1] = k)[2]]

NoFile == [exists |-> FALSE, content |-> EmptyDict]

\* a DataProcessor as __init__ leaves it, before load_transformers
FreshProcessor == [loaded |-> FALSE, scalers |-> EmptyDict, imputers |-> EmptyDict,
                   outlier_detectors |-> EmptyDict, feature_stats |-> EmptyDict]

\* lines 403-410: the four dicts are written to the file
DumpTransformers ==
    [exists |-> TRUE,
     content |-> [k \in {"scalers", "imputers", "outlier_detectors", "feature_stats"} |->
                    Pickle(CASE k = "scalers" -> scalers
                             [] k = "imputers" -> imputers
                             [] k = "outlier_detectors" -> outlier_detectors
                             [] k = "feature_stats" -> feature_stats)]]

\* a mutant of LoadedDict: the key is never found, the default {} is taken
LoadedDictDefault(transformers, key) == EmptyDict

\* transformers.get(key, {}) (lines 421-424)
LoadedDict(transformers, key) ==
    IF key \in DOMAIN transformers THEN Unpickle(transformers[key]) ELSE EmptyDict

\* save_transformers(filepath) on the fitted processor
SaveTransformers ==
    /\ call.kind = "idle"
    /\ fitted
    /\ file # DumpTransformers
    /\ file' = DumpTransformers
    /\ UNCHANGED <<settings, scalers, imputers, outlier_detectors, feature_stats, fitted,
                   call, restored>>
    /\ UNCHANGED otherThanProc

\* load_transformers(filepath) on the fresh processor
LoadTransformers ==
    /\ call.kind = "idle"
    /\ file.exists
    /\ ~restored.loaded
    /\ restored' = [loaded |-> TRUE,
                    scalers |-> LoadedDict(file.content, "scalers"),
                    imputers |-> LoadedDict(file.content, "imputers"),
                    outlier_detectors |-> LoadedDict(file.content, "outlier_detectors"),
                    feature_stats |-> LoadedDict(file.content, "feature_stats")]
    /\ UNCHANGED <<settings, scalers, imputers, outlier_detectors, feature_stats, fitted,
                   call, file>>
    /\ UNCHANGED otherThanProc

----------------------------------------------------------------------------
(* The outlier steps, each applied to one series *)

NoStep == [kind |-> "none", series |-> <<>>, index |-> <<>>, out |-> <<>>, err |-> FALSE]

\* the default RangeIndex of a table of n rows, shifted by first (a table whose
\* first rows were filtered out keeps the labels of the rows that are left)
IndexFrom(first, n) == [i \in 1..n |-> first + i - 1]

\* the series given to the IQR step: up to MaxRows values, each missing or one
\* of three measurements
IqrSeries == UNION {[1..n -> {NaN, 0, Unit, 8 * Unit}] : n \in 1..MaxRows}

\* the series given to the z-score step: ZLen rows alternating between two
\* levels, one row an extreme value, at most one row missing
ZscoreSeries ==
    {[i \in 1..ZLen |->
         IF i = missing THEN NaN
         ELSE IF i = extreme THEN high * Unit
         ELSE (i % 2) * spread * Unit] :
       extreme \in 1..ZLen, missing \in 0..ZLen, high \in {8, 20}, spread \in {0, 1}}

ZscoreIndexes == {IndexFrom(first, ZLen) : first \in {0, 1, 5}}

\* _handle_outliers_iqr(series)
ApplyIqr ==
    /\ step.kind = "none"
    /\ \E series \in IqrSeries :
         step' = [kind |-> "iqr", series |-> series, index |-> IndexFrom(0, Len(series)),
                  out |-> HandleOutliersIqr(series), err |-> FALSE]
    /\ UNCHANGED otherThanSteps

\* _handle_outliers_zscore(series), the series carrying the index labels
ApplyZscore ==
    /\ step.kind = "none"
    /\ \E series \in ZscoreSeries, index \in ZscoreIndexes :
         \E r \in {HandleOutliersZscore(series, index)} :
             step' = [kind |-> "zscore", series |-> series, index |-> index,
                      out |-> r.s, err |-> r.err]
    /\ UNCHANGED otherThanSteps

\* the caller is done with the returned series
ForgetStep ==
    /\ step.kind # "none"
    /\ step' = NoStep
    /\ UNCHANGED otherThanSteps

StepInitFixed == step = NoStep

----------------------------------------------------------------------------
(* The collectors (collectors.py).  A table is "empty" (pd.DataFrame()),     *)
(* "rows" (measurements with a 'datetime') or "junk" (rows built from a      *)
(* payload of another shape).                                                *)

\* what GET /measurements can answer: measurements with a 'datetime' field,
\* measurements with the nested 'date' field, no measurement, 'results': null,
\* a 'results' list of something else, an HTTP error with a JSON error body,
\* a body that is not JSON, a network error, no answer within aiohttp's
\* default total timeout
MeasurementAnswers ==
    {"rows", "rows_with_date", "no_results", "results_null", "junk_results",
     "http_error", "not_json", "network_error", "timeout"}

\* lines 101-154: get_measurements.  raised: an exception leaves the method
GetMeasurements(answer) ==
    CASE answer = "rows" -> [raised |-> FALSE, table |-> "rows"]
      [] answer = "junk_results" -> [raised |-> FALSE, table |-> "junk"]
      \* df['date']['utc'] looks 'utc' up in the row labels: KeyError, caught at 152
      [] answer = "rows_with_date" -> [raised |-> FALSE, table |-> "empty"]
      \* data.get('results', []) is empty or None (lines 132-135)
      [] answer \in {"no_results", "results_null", "http_error"} ->
           [raised |-> FALSE, table |-> "empty"]
      \* except Exception (lines 152-154)
      [] answer \in {"not_json", "network_error", "timeout"} ->
           [raised |-> FALSE, table |-> "empty"]

\* what GET /locations can answer
LocationAnswers ==
    {"results", "no_results", "results_null", "http_error", "not_json", "network_error",
     "timeout"}

\* lines 52-76: get_locations returns data.get('results', []), or [] from the
\* except branch.  value: "list", "[]" or "None"
GetLocations(answer) ==
    CASE answer = "results" -> [raised |-> FALSE, value |-> "list"]
      [] answer = "results_null" -> [raised |-> FALSE, value |-> "None"]
      [] answer \in {"no_results", "http_error"} -> [raised |-> FALSE, value |-> "[]"]
      [] answer \in {"not_json", "network_error", "timeout"} ->
           [raised |-> FALSE, value |-> "[]"]

\* what the INMET station list request can answer
StationAnswers == {"stations", "bad_payload", "http_error", "not_json", "network_error"}

\* lines 210-227: get_stations fills the cache, or leaves it on an exception
GetStations(answer, cache) == IF answer = "stations" THEN TRUE ELSE cache

\* lines 240-260: find_nearest_station, given the cache after get_stations: a
\* station code (of the state, or the first one), or None
FindNearestStation(cache) == IF cache THEN "station" ELSE None

\* what the INMET historical-data request can answer
HistoricalAnswers ==
    {"rows", "no_data", "junk_data", "http_error", "not_json", "network_error"}

\* lines 278-322: get_historical_data
GetHistoricalData(answer) ==
    CASE answer = "rows" -> [raised |-> FALSE, table |-> "rows"]
      [] answer = "junk_data" -> [raised |-> FALSE, table |-> "junk"]
      [] answer = "no_data" -> [raised |-> FALSE, table |-> "empty"]
      [] answer \in {"http_error", "not_json", "network_error"} ->
           [raised |-> FALSE, table |-> "empty"]

\* the answers that are a failure of the remote call itself
CallFailures == {"http_error", "not_json", "network_error", "timeout", "session_error"}

----------------------------------------------------------------------------
(* DataCollectionManager *)

CityNames == {"Campinas", "Santos"}

CityLists == UNION {[1..n -> CityNames] : n \in 0..MaxCities}

NoCity == [pc |-> "none", pollution |-> "empty", weather |-> "empty",
           failed |-> {}, rows |-> {}, answer |-> <<"none", "none">>]

NoLocations == [answer |-> "none", value |-> "none", raised |-> FALSE]

NotConsumed == [by |-> "none", raised |-> FALSE, rows |-> <<>>, files |-> {}]

\* a mutant of RecordCity: a city without any data gets no entry
RecordCityWithData(results, city_name, city_data) ==
    IF city_data.pollution = "empty" /\ city_data.weather = "empty" THEN results
    ELSE Put(results, city_name, city_data)

\* line 479: results[city_name] = city_data
RecordCity(results, city_name, city_data) == Put(results, city_name, city_data)

\* lines 464-473: the coroutines are created, none of them runs yet
BuildTasks ==
    /\ cphase = "start"
    /\ cphase' = "awaiting"
    /\ next_city' = 1
    /\ UNCHANGED <<cities, city, stations_cache, cresults, started, finished, outcomes,
                   locations, consumed>>
    /\ UNCHANGED otherThanColl

\* line 478, "await task": collect_city_data starts to run, enters the OpenAQ
\* session and sends the measurements request (lines 420-430)
StartCity ==
    /\ cphase = "awaiting"
    /\ city.pc = "none"
    /\ next_city <= Len(cities)
    /\ started' = started \cup {next_city}
    /\ city' = [NoCity EXCEPT !.pc = "openaq"]
    /\ UNCHANGED <<cities, cphase, next_city, stations_cache, cresults, finished, outcomes,
                   locations, consumed>>
    /\ UNCHANGED otherThanColl

\* after the pollution data: find_nearest_station asks for the station list
\* when the cache is empty (lines 433, 241-242)
AfterPollution(cache) == IF cache THEN "inmet" ELSE "stations"

\* lines 422-430: the measurements request is answered, or entering the
\* session raises, which the except of collect_city_data catches (line 444)
\* before any weather is collected
OpenAQAnswers ==
    /\ city.pc = "openaq"
    /\ \E answer \in MeasurementAnswers \cup {"session_error"} :
         city' = [pc |-> IF answer = "session_error" THEN "done"
                         ELSE AfterPollution(stations_cache),
                  pollution |-> IF answer = "session_error" THEN "empty"
                                ELSE GetMeasurements(answer).table,
                  weather |-> "empty",
                  failed |-> IF answer \in CallFailures THEN {"openaq"} ELSE {},
                  rows |-> IF answer = "rows" THEN {"openaq"} ELSE {},
                  answer |-> <<"openaq", answer>>]
    /\ UNCHANGED <<cities, cphase, next_city, stations_cache, cresults, started, finished,
                   outcomes, locations, consumed>>
    /\ UNCHANGED otherThanColl

\* lines 214-227 and 244-256: the station list request is answered; without
\* stations find_nearest_station returns None and no weather is asked for
StationsAnswer ==
    /\ city.pc = "stations"
    /\ \E answer \in StationAnswers :
         /\ stations_cache' = GetStations(answer, stations_cache)
         /\ city' = [city EXCEPT
                       !.pc = IF FindNearestStation(stations_cache') # None
                              THEN "inmet" ELSE "done",
                       !.failed = IF answer \in CallFailures THEN @ \cup {"weather"} ELSE @,
                       !.answer = <<"stations", answer>>]
    /\ UNCHANGED <<cities, cphase, next_city, cresults, started, finished, outcomes,
                   locations, consumed>>
    /\ UNCHANGED otherThanColl

\* lines 434-438: the historical-data request is answered
InmetAnswers ==
    /\ city.pc = "inmet"
    /\ \E answer \in HistoricalAnswers :
         city' = [city EXCEPT
                    !.pc = "done",
                    !.weather = GetHistoricalData(answer).table,
                    !.failed = IF answer \in CallFailures THEN @ \cup {"weather"} ELSE @,
                    !.rows = IF answer = "rows" THEN @ \cup {"weather"} ELSE @,
                    !.answer = <<"inmet", answer>>]
    /\ UNCHANGED <<cities, cphase, next_city, stations_cache, cresults, started, finished,
                   outcomes, locations, consumed>>
    /\ UNCHANGED otherThanColl

\* lines 214 and 283: requests.get(url) is given no timeout; when the server
\* never answers, the call never returns
RequestBlocks ==
    /\ city.pc \in {"stations", "inmet"}
    /\ city' = [city EXCEPT !.pc = "blocked"]
    /\ UNCHANGED <<cities, cphase, next_city, stations_cache, cresults, started, finished,
                   outcomes, locations, consumed>>
    /\ UNCHANGED otherThanColl

\* lines 447 and 478-479: collect_city_data returns its results dict, which is
\* stored under the city's name; the loop goes to the next coroutine.
\* outcomes keeps, for the city, the sources whose call failed and the sources
\* that answered rows
FinishCity ==
    /\ city.pc = "done"
    /\ cresults' = RecordCity(cresults, cities[next_city],
                              [pollution |-> city.pollution, weather |-> city.weather])
    /\ outcomes' = Put(outcomes, cities[next_city], [failed |-> city.failed, rows |-> city.rows])
    /\ finished' = finished \cup {next_city}
    /\ next_city' = next_city + 1
    /\ city' = NoCity
    /\ UNCHANGED <<cities, cphase, stations_cache, started, locations, consumed>>
    /\ UNCHANGED otherThanColl

\* line 487: return results
ReturnResults ==
    /\ cphase = "awaiting"
    /\ city.pc = "none"
    /\ next_city > Len(cities)
    /\ cphase' = "returned"
    /\ UNCHANGED <<cities, next_city, city, stations_cache, cresults, started, finished,
                   outcomes, locations, consumed>>
    /\ UNCHANGED otherThanColl

\* OpenAQCollector.get_locations, called on its own
CallGetLocations ==
    /\ cphase = "start"
    /\ \E answer \in LocationAnswers :
         \E r \in {GetLocations(answer)} :
             locations' = [answer |-> answer, value |-> r.value, raised |-> r.raised]
    /\ cphase' = "located"
    /\ UNCHANGED <<cities, next_city, city, stations_cache, cresults, started, finished,
                   outcomes, consumed>>
    /\ UNCHANGED otherThanColl

----------------------------------------------------------------------------
(* The callers of collect_multiple_cities: collect_training_data             *)
(* (scripts/train_model.py) and collect_combined_data (scripts/collect_data.py) *)

\* all_data.items(): the names in the order of their first insertion
RECURSIVE DictOrder(_, _)
DictOrder(names, seen) ==
    IF names = <<>> THEN <<>>
    ELSE IF Head(names) \in seen THEN DictOrder(Tail(names), seen)
    ELSE <<Head(names)>> \o DictOrder(Tail(names), seen \cup {Head(names)})

\* a mutant of SkipsCity: a city is skipped only when both tables are empty
SkipsCityBothEmpty(data) == data.pollution = "empty" /\ data.weather = "empty"

\* "if not pollution_df.empty and not weather_df.empty" does not hold
\* (train_model.py line 134, collect_data.py line 166)
SkipsCity(data) == data.pollution = "empty" \/ data.weather = "empty"

\* pd.merge_asof(pollution.sort_values('datetime'), weather.sort_values('datetime'),
\* on='datetime'): KeyError for a table without 'datetime'
MergeRaises(data) == data.pollution # "rows" \/ data.weather # "rows"

\* train_model.py lines 130-143: the merged tables of the cities, in order;
\* an exception of the merge leaves the function
RECURSIVE CombineCities(_, _)
CombineCities(names, all_data) ==
    IF names = <<>> THEN [raised |-> FALSE, rows |-> <<>>]
    ELSE IF SkipsCity(all_data[Head(names)]) THEN CombineCities(Tail(names), all_data)
    ELSE IF MergeRaises(all_data[Head(names)]) THEN [raised |-> TRUE, rows |-> <<>>]
    ELSE [CombineCities(Tail(names), all_data) EXCEPT !.rows = <<Head(names)>> \o @]

\* train_model.py lines 115-151, after collect_multiple_cities has returned:
\* rows holds the cities whose merged rows are in the table returned (the
\* empty table when there is none)
CollectTrainingData ==
    /\ cphase = "returned"
    /\ \E r \in {CombineCities(DictOrder(cities, {}), cresults)} :
         consumed' = [by |-> "collect_training_data", raised |-> r.raised,
                      rows |-> r.rows, files |-> {}]
    /\ cphase' = "consumed"
    /\ UNCHANGED <<cities, next_city, city, stations_cache, cresults, started, finished,
                   outcomes, locations>>
    /\ UNCHANGED otherThanColl

\* collect_data.py lines 150-182: the files written for one city; an exception
\* of the merge is caught (line 181)
CityFiles(name, data) ==
    {<<name, "pollution.csv">> : x \in {1} \cap (IF data.pollution # "empty" THEN {1} ELSE {})}
    \cup {<<name, "weather.csv">> : x \in {1} \cap (IF data.weather # "empty" THEN {1} ELSE {})}
    \cup {<<name, "combined.csv">> :
             x \in {1} \cap (IF ~SkipsCity(data) /\ ~MergeRaises(data) THEN {1} ELSE {})}

\* collect_data.py lines 128-182, after collect_multiple_cities has returned
CollectCombinedData ==
    /\ cphase = "returned"
    /\ consumed' = [by |-> "collect_combined_data", raised |-> FALSE, rows |-> <<>>,
                    files |-> UNION {CityFiles(name, cresults[name]) : name \in DOMAIN cresults}]
    /\ cphase' = "consumed"
    /\ UNCHANGED <<cities, next_city, city, stations_cache, cresults, started, finished,
                   outcomes, locations>>
    /\ UNCHANGED otherThanColl

----------------------------------------------------------------------------
(* BaseModel (base.py) and its subclasses AirQualityModel (train_model.py)   *)
(* and DummyModel (base.py).  A feature_names of None is written <<>>: None  *)
(* and the empty list are both false wherever the attribute is tested.       *)

\* dict.get(key, default)
Get(d, key, default) == IF key \in DOMAIN d THEN d[key] ELSE default

\* the methods that have completed on an object are kept next to its attributes
NoInstance ==
    [class |-> "none", model_name |-> "", model |-> None, scaler |-> None,
     feature_names |-> <<>>, is_trained |-> FALSE, version |-> "", metadata |-> "{}",
     completed |-> {}]

\* base.py lines 24-31, train_model.py lines 37-39
NewAirQualityModel ==
    [class |-> "AirQualityModel", model_name |-> "air_quality_rf", model |-> None,
     scaler |-> "StandardScaler()", feature_names |-> <<>>, is_trained |-> FALSE,
     version |-> "1.0.0", metadata |-> "{}", completed |-> {}]

\* base.py lines 155-162
NewDummyModel ==
    [class |-> "DummyModel", model_name |-> "dummy_model", model |-> None,
     scaler |-> None, feature_names |-> FeatureColumns, is_trained |-> TRUE,
     version |-> "1.0.0", metadata |-> "{}", completed |-> {}]

\* the columns of the X a model is trained on: all the features, or the ones
\* prepare_training_data found
TrainingColumns == {FeatureColumns, <<"temperatura", "umidade">>}

\* where AirQualityModel.train can raise: train_test_split (line 51), the
\* scaler (56), the fit (69), the cross-validation (86); or nowhere
TrainFailures == {"split", "scale", "fit", "cv", "none"}

\* train_model.py lines 41-102
AirQualityModelTrain(self, columns, failure) ==
    [self EXCEPT
       !.feature_names = columns,
       !.scaler = IF failure \in {"split", "scale"} THEN @ ELSE "fitted StandardScaler",
       !.model = CASE failure \in {"split", "scale"} -> @
                   [] failure = "fit" -> "RandomForestRegressor()"
                   [] OTHER -> "fitted RandomForestRegressor",
       !.is_trained = IF failure = "none" THEN TRUE ELSE @,
       !.metadata = IF failure = "none" THEN "of the training" ELSE @,
       !.completed = IF failure = "none" THEN @ \cup {"train"} ELSE @]

\* base.py lines 164-173
DummyModelTrain(self) ==
    [self EXCEPT !.is_trained = TRUE, !.completed = @ \cup {"train"}]

\* a mutant of MaySave: any model may be saved
MaySaveAlways(self) == TRUE

\* base.py line 67: "if not self.is_trained: raise ValueError"
MaySave(self) == self.is_trained

\* base.py lines 70-78: model_data
ModelData(self) ==
    [key \in {"model", "scaler", "feature_names", "version", "metadata", "model_name",
              "timestamp"} |->
        CASE key = "model" -> self.model
          [] key = "scaler" -> self.scaler
          [] key = "feature_names" -> self.feature_names
          [] key = "version" -> self.version
          [] key = "metadata" -> self.metadata
          [] key = "model_name" -> self.model_name
          [] key = "timestamp" -> "utcnow"]

\* a file: absent, not a joblib file, or a pickled dict; with the class of the
\* object whose save wrote it and the methods completed on that object then
NotSaved == [class |-> "none", completed |-> {}]

AbsentFile == [kind |-> "absent", data |-> EmptyDict, saved_by |-> NotSaved]

CorruptFile == [kind |-> "corrupt", data |-> EmptyDict, saved_by |-> NotSaved]

DictFile(data, saved_by) == [kind |-> "dict", data |-> data, saved_by |-> saved_by]

\* the model.joblib of train_rf.py (lines 231-235): three keys
TrainRfFile(feature_names) ==
    DictFile([key \in {"model", "scaler", "feature_names"} |->
                 CASE key = "model" -> "fitted RandomForestRegressor"
                   [] key = "scaler" -> "fitted StandardScaler"
                   [] key = "feature_names" -> feature_names],
             NotSaved)

\* a pickled dict that is not a model bundle
NoModelFile == DictFile([key \in {"scaler"} |-> "fitted StandardScaler"], NotSaved)

\* what a path can hold before the program writes to it
FilesBefore ==
    {AbsentFile, CorruptFile, NoModelFile, TrainRfFile(FeatureColumns),
     TrainRfFile(<<"umidade", "temperatura">>)}

\* base.py lines 91-93: joblib.load raises, or model_data['model'] does
LoadRaises(f) == f.kind # "dict" \/ "model" \notin DOMAIN f.data

\* base.py lines 93-99
Loaded(self, f) ==
    [self EXCEPT
       !.model = f.data["model"],
       !.scaler = Get(f.data, "scaler", None),
       !.feature_names = Get(f.data, "feature_names", <<>>),
       !.version = Get(f.data, "version", "1.0.0"),
       !.metadata = Get(f.data, "metadata", "{}"),
       !.model_name = Get(f.data, "model_name", self.model_name),
       !.is_trained = TRUE,
       !.completed = @ \cup {"load"}]

NoOutcome == [method |-> "none", raised |-> FALSE]

\* AirQualityModel() or DummyModel()
Construct ==
    /\ instance = NoInstance
    /\ instance' \in {NewAirQualityModel, NewDummyModel}
    /\ called' = [method |-> "__init__", raised |-> FALSE]
    /\ UNCHANGED filepath
    /\ UNCHANGED otherThanBase

\* model.train(X, y)
TrainModel ==
    /\ instance.class \in {"AirQualityModel", "DummyModel"}
    /\ \E columns \in TrainingColumns, failure \in TrainFailures :
         IF instance.class = "DummyModel"
         THEN /\ instance' = DummyModelTrain(instance)
              /\ called' = [method |-> "train", raised |-> FALSE]
         ELSE /\ instance' = AirQualityModelTrain(instance, columns, failure)
              /\ called' = [method |-> "train", raised |-> failure # "none"]
    /\ UNCHANGED filepath
    /\ UNCHANGED otherThanBase

\* model.save(filepath): base.py lines 60-81
SaveModel ==
    /\ instance.class \in {"AirQualityModel", "DummyModel"}
    /\ IF MaySave(instance)
       THEN /\ filepath' = DictFile(ModelData(instance),
                                    [class |-> instance.class,
                                     completed |-> instance.completed])
            /\ called' = [method |-> "save", raised |-> FALSE]
       ELSE /\ filepath' = filepath
            /\ called' = [method |-> "save", raised |-> TRUE]
    /\ UNCHANGED instance
    /\ UNCHANGED otherThanBase

\* model.load(filepath): base.py lines 83-105
LoadModel ==
    /\ instance.class \in {"AirQualityModel", "DummyModel"}
    /\ IF LoadRaises(filepath)
       THEN /\ instance' = instance
            /\ called' = [method |-> "load", raised |-> TRUE]
       ELSE /\ instance' = Loaded(instance, filepath)
            /\ called' = [method |-> "load", raised |-> FALSE]
    /\ UNCHANGED filepath
    /\ UNCHANGED otherThanBase

\* the object is dropped; the file stays
DropModel ==
    /\ instance.class \in {"AirQualityModel", "DummyModel"}
    /\ instance' = NoInstance
    /\ called' = NoOutcome
    /\ UNCHANGED filepath
    /\ UNCHANGED otherThanBase

----------------------------------------------------------------------------
(* ModelManager (base.py lines 222-304)                                      *)

\* base.py lines 227-231; "logged" is the message load_models logged last
NewManager == [models |-> EmptyDict, current_model |-> NoInstance, logged |-> "none"]

\* base.py lines 260-264; NoInstance stands for None
IsLoaded(m) == m.current_model # NoInstance /\ m.current_model.is_trained

\* a mutant of FallbackModels: the model whose load failed is registered too
FallbackModelsWithProduction(registry) ==
    Put(Put(registry, "production", NewDummyModel), "dummy", NewDummyModel)

\* base.py lines 255-256: the fallback registers the dummy model only
FallbackModels(registry) == Put(registry, "dummy", NewDummyModel)

\* base.py lines 241-251: the production file exists and loads, or does not exist
\* base.py lines 253-258: anything raised on the way gives the dummy model
LoadModelsResult(m, f) ==
    CASE f.kind = "absent" ->
           [m EXCEPT !.current_model = NewDummyModel,
                     !.models = Put(@, "dummy", NewDummyModel),
                     !.logged = "Usando modelo dummy"]
      [] LoadRaises(f) ->
           [m EXCEPT !.current_model = NewDummyModel,
                     !.models = FallbackModels(@),
                     !.logged = "Fallback para modelo dummy"]
      [] OTHER ->
           [m EXCEPT !.current_model = Loaded(NewDummyModel, f),
                     !.models = Put(@, "production", Loaded(NewDummyModel, f)),
                     !.logged = "Modelo de producao carregado"]

\* the climate_data given to predict: all six features, some of them, or
\* features and a key the model does not know
ClimateKeys ==
    {{"temperatura", "umidade", "vento_velocidade", "vento_direcao", "precipitacao",
      "pressao_atmosferica"},
     {"temperatura", "umidade", "vento_velocidade", "precipitacao"},
     {"temperatura", "umidade", "vento_velocidade", "vento_direcao", "precipitacao",
      "pressao_atmosferica", "altitude"},
     {"temperatura"},
     {}}

ClimateValue(key, temperatura, precipitacao) ==
    CASE key = "temperatura" -> temperatura
      [] key = "umidade" -> 50 * Unit
      [] key = "vento_velocidade" -> 10 * Unit
      [] key = "vento_direcao" -> 180 * Unit
      [] key = "precipitacao" -> precipitacao
      [] key = "pressao_atmosferica" -> 1013 * Unit
      [] OTHER -> 760 * Unit

ClimateData ==
    {[key \in keys |-> ClimateValue(key, temperatura, precipitacao)] :
        keys \in ClimateKeys, temperatura \in {10 * Unit, 35 * Unit},
        precipitacao \in {0, 10 * Unit}}

\* list(climate_data.keys()), in the order the caller wrote them
KeyList(keys) ==
    SelectSeq(<<"temperatura", "umidade", "vento_velocidade", "vento_direcao",
                "precipitacao", "pressao_atmosferica", "altitude">>,
              LAMBDA key : key \in keys)

SeqRange(s) == {s[i] : i \in DOMAIN s}

\* base.py line 283
RequiredFeatures(model, climate_data) ==
    IF model.feature_names # <<>> THEN model.feature_names
    ELSE KeyList(DOMAIN climate_data)

\* base.py lines 280-287: the one-row table, a missing required feature set to 0.0
FilledRow(climate_data, required) ==
    [key \in DOMAIN climate_data \cup SeqRange(required) |->
        IF key \in DOMAIN climate_data THEN climate_data[key] ELSE 0]

\* base.py lines 118-121
FeaturesMissing(model, row) ==
    model.feature_names # <<>> /\ SeqRange(model.feature_names) \ DOMAIN row # {}

\* base.py line 123: the columns in the order of feature_names; with no
\* feature_names, the columns of the table as they are
ColumnsPassed(model, row) ==
    IF model.feature_names # <<>> THEN model.feature_names ELSE KeyList(DOMAIN row)

\* base.py lines 126-128: the scaler of the bundle, fitted on rows around 20
\* with a spread of 10; the scaler of a fresh BaseModel subclass is unfitted
ScalerRaises(model) == model.scaler = "StandardScaler()"

Scaled(model, x) ==
    IF model.scaler = None THEN x ELSE RDiv((x - 20 * Unit) * Unit, 10 * Unit)

\* base.py lines 107-130: the row the model gets
Preprocessed(model, row) ==
    [key \in SeqRange(ColumnsPassed(model, row)) |-> Scaled(model, row[key])]

\* the columns DummyModel.predict reads (base.py lines 190-209)
RuleColumns == {"temperatura", "umidade", "vento_velocidade", "precipitacao"}

\* np.random.normal(0, 3): one of a few draws
Noise == {0 - 3 * Unit, 0, 3 * Unit}

\* base.py lines 185-217, for one row
DummyPm25(row, noise) ==
    20 * Unit
    + (CASE row["temperatura"] > 30 * Unit -> 10 * Unit
         [] row["temperatura"] < 15 * Unit -> 5 * Unit
         [] OTHER -> 0)
    + (CASE row["umidade"] < 40 * Unit -> 8 * Unit
         [] row["umidade"] > 80 * Unit -> 0 - 3 * Unit
         [] OTHER -> 0)
    + (CASE row["vento_velocidade"] > 20 * Unit -> 0 - 5 * Unit
         [] row["vento_velocidade"] < 5 * Unit -> 7 * Unit
         [] OTHER -> 0)
    + (IF row["precipitacao"] > 5 * Unit THEN 0 - 10 * Unit ELSE 0)
    + noise

DummyPredict(row, noise) ==
    IF DummyPm25(row, noise) < 5 * Unit THEN 5 * Unit ELSE DummyPm25(row, noise)

NoPrediction ==
    [climate_data |-> EmptyDict, raised |-> "", columns |-> <<>>, pm25 |-> 0,
     pm10 |-> 0, no2 |-> 0]

\* base.py lines 266-304
PredictResult(m, climate_data, noise) ==
    LET model == m.current_model
        row == FilledRow(climate_data, RequiredFeatures(model, climate_data))
        raised ==
            CASE ~IsLoaded(m) -> "ValueError: Nenhum modelo carregado"
              [] FeaturesMissing(model, row) -> "ValueError: Features faltando"
              [] model.scaler # None /\ (ScalerRaises(model) \/ DOMAIN row = {}) ->
                   "scaler.transform"
              [] RuleColumns \ SeqRange(ColumnsPassed(model, row)) # {} -> "KeyError"
              [] OTHER -> ""
    IN  IF raised # ""
        THEN [NoPrediction EXCEPT !.climate_data = climate_data, !.raised = raised]
        ELSE [climate_data |-> climate_data,
              raised |-> "",
              columns |-> ColumnsPassed(model, row),
              pm25 |-> DummyPredict(Preprocessed(model, row), noise),
              pm10 |-> (DummyPredict(Preprocessed(model, row), noise) * 18) \div 10,
              no2 |-> (DummyPredict(Preprocessed(model, row), noise) * 14) \div 10]

\* await model_manager.load_models()
LoadModels ==
    /\ manager' = LoadModelsResult(manager, filepath)
    /\ called' = [method |-> "load_models", raised |-> FALSE]
    /\ prediction' = NoPrediction
    /\ UNCHANGED <<instance, filepath>>
    /\ UNCHANGED otherThanManager

\* await model_manager.predict(climate_data)
ManagerPredict ==
    /\ \E climate_data \in ClimateData, noise \in Noise :
         prediction' = PredictResult(manager, climate_data, noise)
    /\ called' = [method |-> "predict", raised |-> prediction'.raised # ""]
    /\ UNCHANGED <<manager, instance, filepath>>
    /\ UNCHANGED otherThanManager

\* the production file is written, replaced or removed outside the manager
ReplaceProductionFile ==
    /\ filepath' \in FilesBefore \ {filepath}
    /\ UNCHANGED <<manager, prediction, instance, called>>
    /\ UNCHANGED otherThanManager

----------------------------------------------------------------------------
(* The API: the request schemas (requests.py), the routes (predictions.py,   *)
(* metrics.py) and the application around them (main.py).  An exception is   *)
(* a record naming its class; "" is no exception.                            *)

NoRequest == [route |-> "none"]

NoResponse == [route |-> "none", status_code |-> 0, body |-> EmptyDict]

Returned200(route, body) == [route |-> route, status_code |-> 200, body |-> body]

NoException == [raised |-> "", status_code |-> 0]

HTTPException(status_code) == [raised |-> "HTTPException", status_code |-> status_code]

Raised(class) == [raised |-> class, status_code |-> 0]

\* main.py lines 87-99, 102-115: an HTTPException is answered with its status
\* code, any other exception with 500
ExceptionResponse(route, exc) ==
    [route |-> route,
     status_code |-> IF exc.raised = "HTTPException" THEN exc.status_code ELSE 500,
     body |-> EmptyDict]

\* FastAPI answers a body that fails the validation of its model with 422
\* and does not call the handler
ValidationResponse(route) == [route |-> route, status_code |-> 422, body |-> EmptyDict]

\* requests.py lines 14-49: the fields of ClimateDataRequest
ClimateRequired == {"temperatura", "umidade", "vento_velocidade", "precipitacao"}

ClimateOptional == {"vento_direcao", "pressao_atmosferica"}

ClimateGe(field) ==
    CASE field = "temperatura" -> 0 - 50 * Unit
      [] field = "pressao_atmosferica" -> 800 * Unit
      [] OTHER -> 0

ClimateLe(field) ==
    CASE field = "temperatura" -> 60 * Unit
      [] field = "umidade" -> 100 * Unit
      [] field = "vento_velocidade" -> 200 * Unit
      [] field = "vento_direcao" -> 360 * Unit
      [] field = "precipitacao" -> 1000 * Unit
      [] field = "pressao_atmosferica" -> 1200 * Unit

\* a climate record validates: the required fields are there, every field
\* given is in its range
ValidClimate(record) ==
    /\ ClimateRequired \subseteq DOMAIN record
    /\ \A field \in DOMAIN record \cap (ClimateRequired \cup ClimateOptional) :
         ClimateGe(field) <= record[field] /\ record[field] <= ClimateLe(field)

\* the example of the schema (requests.py lines 53-60)
GoodClimate ==
    [field \in ClimateRequired \cup ClimateOptional |->
        CASE field = "temperatura" -> 2550
          [] field = "umidade" -> 65 * Unit
          [] field = "vento_velocidade" -> 1520
          [] field = "vento_direcao" -> 180 * Unit
          [] field = "precipitacao" -> 0
          [] field = "pressao_atmosferica" -> 101325]

Without(record, field) == [f \in DOMAIN record \ {field} |-> record[f]]

\* records on the edges of the ranges, just outside them, and lacking a field
ClimateRecords ==
    {GoodClimate,
     [field \in ClimateRequired |-> IF field = "temperatura" THEN ClimateGe(field)
                                    ELSE ClimateLe(field)],
     [GoodClimate EXCEPT !["temperatura"] = 60 * Unit + 1],
     [GoodClimate EXCEPT !["umidade"] = 0 - 1],
     [GoodClimate EXCEPT !["vento_direcao"] = 360 * Unit + 1],
     [GoodClimate EXCEPT !["pressao_atmosferica"] = 800 * Unit - 1],
     Without(GoodClimate, "precipitacao"),
     Without(GoodClimate, "vento_direcao")}

\* requests.py lines 119-120
MinItems == 1

MaxItems == 100

\* date.today() (predictions.py line 129); the dates of a request are 1, 2, ...
Today == 1000

\* dados_climaticos: n good records, or n records the last of which is another
RecordLists ==
    {[i \in 1..n |-> GoodClimate] : n \in {0, 1, 2, 3, MaxItems, MaxItems + 1}}
    \cup {[i \in 1..n |-> IF i = n THEN last ELSE GoodClimate] :
             n \in {1, 2}, last \in ClimateRecords}

\* datas_predicao: not given (None), or a list of dates
NoDates == [given |-> FALSE, dates |-> <<>>]

DateLists ==
    {NoDates}
    \cup {[given |-> TRUE, dates |-> [i \in 1..m |-> i]] :
             m \in {0, 1, 2, MaxItems, MaxItems + 1}}

BatchRequests ==
    {[route |-> "/predict/batch", dados_climaticos |-> records, datas_predicao |-> dates] :
        records \in RecordLists, dates \in DateLists}

\* requests.py lines 117-121
ValidRecordList(records) ==
    /\ MinItems <= Len(records) /\ Len(records) <= MaxItems
    /\ \A i \in DOMAIN records : ValidClimate(records[i])

\* requests.py lines 128-133: "if v and 'dados_climaticos' in values"; the
\* values hold dados_climaticos when that field validated
DatesValidatorRaises(v, records) ==
    v # <<>> /\ ValidRecordList(records) /\ Len(v) # Len(records)

\* BatchPredictionRequest validates
ValidBatch(req) ==
    /\ ValidRecordList(req.dados_climaticos)
    /\ req.datas_predicao.given =>
           ~DatesValidatorRaises(req.datas_predicao.dates, req.dados_climaticos)

\* the keyword arguments the handlers give to the response models
\* (predictions.py lines 54-96, 127-147) and the fields those models require
\* (responses.py lines 195-198, 221-226, 275-279)
GivenToPollutantPrediction == {"valor", "unidade", "nivel_qualidade", "confianca"}

RequiredByPollutantPrediction == {"value", "unit", "quality"}

GivenToPredictionResponse ==
    {"cidade", "data_predicao", "timestamp", "pm25", "overall_quality", "historical_data"}

RequiredByPredictionResponse == {"station_id", "items"}

\* pydantic: a model is built when every required field is given, and
\* raises ValidationError otherwise; a keyword that is not a field is ignored
Constructs(required, given) == required \subseteq given

\* predictions.py line 129
DataPredicao(req, i) ==
    IF req.datas_predicao.given /\ req.datas_predicao.dates # <<>>
       /\ i <= Len(req.datas_predicao.dates)
    THEN req.datas_predicao.dates[i]
    ELSE Today

\* predictions.py lines 111-147: the handler has no try; the first
\* PollutantPrediction(valor=...) already raises
PredictBatchHandler(req) ==
    IF ~Constructs(RequiredByPollutantPrediction, GivenToPollutantPrediction)
       \/ ~Constructs(RequiredByPredictionResponse, GivenToPredictionResponse)
    THEN ExceptionResponse(req.route, Raised("ValidationError"))
    ELSE Returned200(req.route,
                     [total_predicoes |-> Len(req.dados_climaticos),
                      predicoes |-> [i \in DOMAIN req.dados_climaticos |->
                                        [data_predicao |-> DataPredicao(req, i),
                                         valor |-> 20 * Unit + (i - 1) * Unit]]])

\* POST /predict: one climate record
PredictRequests ==
    {[route |-> "/predict", dados_climaticos |-> record, incluir_historico |-> historico] :
        record \in ClimateRecords, historico \in BOOLEAN}

\* predictions.py lines 43-104: what the try block does
PredictTry(state, req) ==
    CASE "model_manager" \notin state -> HTTPException(503)
      [] ~Constructs(RequiredByPollutantPrediction, GivenToPollutantPrediction) ->
           Raised("ValidationError")
      [] ~Constructs(RequiredByPredictionResponse, GivenToPredictionResponse) ->
           Raised("ValidationError")
      [] OTHER -> NoException

\* predictions.py lines 106-108: "except Exception" catches the HTTPException
\* of the try block as well
PredictHandler(state, req) ==
    IF PredictTry(state, req).raised # ""
    THEN ExceptionResponse(req.route, HTTPException(500))
    ELSE Returned200(req.route, EmptyDict)

\* requests.py lines 154-188
ValidPoluentes == {"pm25", "pm10", "no2", "o3", "co", "so2"}

PoluentesLists ==
    {<<>>, <<"pm25">>, <<"pm10", "no2", "o3", "co", "so2">>, <<"pm25", "pm1">>,
     <<"PM25">>}

HistoricalRequests ==
    {[route |-> "/historical", data_inicio |-> inicio, data_fim |-> fim,
      poluentes |-> [given |-> given, names |-> names]] :
        inicio \in 1..2, fim \in 1..2, given \in BOOLEAN, names \in PoluentesLists}

\* requests.py lines 175-179
DataFimValidatorRaises(v, data_inicio) == v < data_inicio

\* requests.py lines 181-188
PoluentesValidatorRaises(v) == v # <<>> /\ SeqRange(v) \ ValidPoluentes # {}

ValidHistorical(req) ==
    /\ ~DataFimValidatorRaises(req.data_fim, req.data_inicio)
    /\ req.poluentes.given => ~PoluentesValidatorRaises(req.poluentes.names)

\* predictions.py lines 158-173: request.station_id is not a field of
\* HistoricalDataRequest; the AttributeError is turned into 500
HistoricalHandler(req) ==
    IF "station_id" \notin DOMAIN req
    THEN ExceptionResponse(req.route, HTTPException(500))
    ELSE Returned200(req.route, EmptyDict)

\* model.metadata.json: the text of the file, or no file, or a file that
\* cannot be opened
MetadataTexts ==
    {"{\"winner\": \"RandomForest\", \"test_rmse\": 1.5}",
     "{ \"winner\" : \"LinearRegression\" }",
     "{}",
     "{\"winner\": \"RandomForest\", \"test_r2\": NaN}",
     "{\"winner\": ",
     ""}

MetadataFiles ==
    {"missing", "unreadable"} \cup MetadataTexts

\* json.load: the value of a text, or JSONDecodeError; Python reads the
\* token NaN as a float
JsonLoad(text) ==
    CASE text = "{\"winner\": \"RandomForest\", \"test_rmse\": 1.5}" ->
           [raised |-> "", value |-> Put(Put(EmptyDict, "winner", 2), "test_rmse", 150)]
      [] text = "{ \"winner\" : \"LinearRegression\" }" ->
           [raised |-> "", value |-> Put(EmptyDict, "winner", 1)]
      [] text = "{}" -> [raised |-> "", value |-> EmptyDict]
      [] text = "{\"winner\": \"RandomForest\", \"test_r2\": NaN}" ->
           [raised |-> "", value |-> Put(Put(EmptyDict, "winner", 2), "test_r2", NaN)]
      [] OTHER -> [raised |-> "JSONDecodeError", value |-> EmptyDict]

\* JSONResponse renders its content when it is built, with allow_nan=False
RenderRaises(value) == \E key \in DOMAIN value : value[key] \in {NaN, Inf, 0 - Inf}

\* metrics.py lines 38-64: what the try block does
MetricsTry(f) ==
    CASE f = "missing" -> HTTPException(404)
      [] f = "unreadable" -> Raised("PermissionError")
      [] JsonLoad(f).raised # "" -> Raised("JSONDecodeError")
      [] RenderRaises(JsonLoad(f).value) -> Raised("ValueError")
      [] OTHER -> NoException

\* a mutant of MetricsExcept: no "except HTTPException: raise" before the others
MetricsExceptAll(exc) == HTTPException(500)

\* metrics.py lines 66-88: the HTTPException is raised again, JSONDecodeError
\* and every other exception become HTTPException(500)
MetricsExcept(exc) ==
    CASE exc.raised = "HTTPException" -> exc
      [] exc.raised = "JSONDecodeError" -> HTTPException(500)
      [] OTHER -> HTTPException(500)

\* metrics.py lines 19-88
MetricsHandler(f) ==
    IF MetricsTry(f).raised # ""
    THEN ExceptionResponse("/metrics", MetricsExcept(MetricsTry(f)))
    ELSE Returned200("/metrics", JsonLoad(f).value)

\* main.py lines 27-47: the application starts; load_models has returned
Lifespan ==
    /\ "model_manager" \notin app_state
    /\ app_state' = app_state \cup {"model_manager"}
    /\ UNCHANGED <<metadata_file, request, response>>
    /\ UNCHANGED otherThanApi

\* GET /metrics
GetMetrics ==
    /\ request' = [route |-> "/metrics"]
    /\ response' = MetricsHandler(metadata_file)
    /\ UNCHANGED <<app_state, metadata_file>>
    /\ UNCHANGED otherThanApi

\* a training run, or anything else, writes or removes model.metadata.json
ChangeMetadataFile ==
    /\ metadata_file' \in MetadataFiles \ {metadata_file}
    /\ UNCHANGED <<app_state, request, response>>
    /\ UNCHANGED otherThanApi

\* POST /predict
PredictAirQuality ==
    /\ \E req \in PredictRequests :
         /\ request' = req
         /\ response' = IF ValidClimate(req.dados_climaticos)
                        THEN PredictHandler(app_state, req)
                        ELSE ValidationResponse(req.route)
    /\ UNCHANGED <<app_state, metadata_file>>
    /\ UNCHANGED otherThanApi

\* POST /predict/batch
PredictBatchAirQuality ==
    /\ \E req \in BatchRequests :
         /\ request' = req
         /\ response' = IF ValidBatch(req) THEN PredictBatchHandler(req)
                        ELSE ValidationResponse(req.route)
    /\ UNCHANGED <<app_state, metadata_file>>
    /\ UNCHANGED otherThanApi

\* GET /historical
GetHistoricalDataRoute ==
    /\ \E req \in HistoricalRequests :
         /\ request' = req
         /\ response' = IF ValidHistorical(req) THEN HistoricalHandler(req)
                        ELSE ValidationResponse(req.route)
    /\ UNCHANGED <<app_state, metadata_file>>
    /\ UNCHANGED otherThanApi

----------------------------------------------------------------------------
(* FeatureEngineer.create_pollution_features (processors.py lines 434-453)   *)

\* processors.py line 445: the edges of the bins
Bins == <<0, 12 * Unit, 3540, 5540, 15040, 25040, Inf>>

\* processors.py line 446
Labels ==
    <<"Boa", "Moderada", "Insalubre_Sensiveis", "Insalubre", "Muito_Insalubre",
      "Perigosa">>

\* the missing category
NoLabel == "NaN"

\* pd.cut with its defaults right=True, include_lowest=False: bin i is the
\* interval (Bins[i], Bins[i+1]]; a value in no bin, or NaN, gets no category
PdCut(v) ==
    IF v = NaN \/ ~(\E i \in 1..Len(Labels) : Bins[i] < v /\ v <= Bins[i + 1])
    THEN NoLabel
    ELSE Labels[CHOOSE i \in 1..Len(Labels) : Bins[i] < v /\ v <= Bins[i + 1]]

\* pm25 values: below zero, zero, each edge and a hundredth above it, infinity, NaN
Pm25Values ==
    {0 - Unit, 0, 1, 12 * Unit, 12 * Unit + 1, 3540, 3541, 5540, 5541, 15040, 15041,
     25040, 25041, Inf, NaN}

\* a 'pm25' column of one or two rows
Pm25Columns ==
    {<<v>> : v \in Pm25Values} \cup {<<v, w>> : v \in Pm25Values, w \in Pm25Values}

\* FeatureEngineer.create_pollution_features(df), df having a 'pm25' column
CreatePollutionFeatures ==
    /\ pm25 # <<>>
    /\ pm25_category = <<>>
    /\ pm25_category' = [i \in DOMAIN pm25 |-> PdCut(pm25[i])]
    /\ UNCHANGED <<pm25, prepared>>
    /\ UNCHANGED otherThanFeat

\* the table is dropped, another is taken
NextTable ==
    /\ pm25_category # <<>>
    /\ pm25' \in Pm25Columns
    /\ pm25_category' = <<>>
    /\ UNCHANGED prepared
    /\ UNCHANGED otherThanFeat

----------------------------------------------------------------------------
(* prepare_training_data (train_model.py lines 154-189)                      *)

NotPrepared ==
    [done |-> FALSE, raised |-> FALSE, df |-> NoTable, index |-> <<>>, X |-> EmptyDict,
     y |-> <<>>]

\* train_model.py line 160: processor = DataProcessor()
NewProcessor ==
    [scalers |-> EmptyDict, imputers |-> EmptyDict, outlier_detectors |-> EmptyDict]

\* the tables given to prepare_training_data: the input tables, and those
\* without the target or without a feature column
TrainingTables ==
    InputTables
    \cup {[df EXCEPT !.cols = Without(df.cols, "value")] : df \in InputTables}
    \cup {[df EXCEPT !.cols = Without(Without(df.cols, "temperatura"), "umidade")] :
             df \in InputTables}

\* train_model.py line 174
AvailableFeatures(df_processed) ==
    SelectSeq(FeatureColumns, LAMBDA col : col \in DOMAIN df_processed.cols)

\* train_model.py line 183: the rows of the chosen columns that hold no NaN
CleanRows(df_processed, columns) ==
    SelectSeq([i \in 1..Len(df_processed.index) |-> i],
              LAMBDA i : \A col \in columns : df_processed.cols[col][i] # NaN)

\* train_model.py lines 174-189, given what process_dataframe returned
Prepared(df, processed) ==
    IF \/ processed.err
       \/ AvailableFeatures(processed.df) = <<>>
       \/ "value" \notin DOMAIN processed.df.cols
    THEN [NotPrepared EXCEPT !.done = TRUE, !.raised = TRUE, !.df = df]
    ELSE [done |-> TRUE,
          raised |-> FALSE,
          df |-> df,
          index |-> [k \in DOMAIN CleanRows(processed.df,
                                            SeqRange(AvailableFeatures(processed.df))
                                                \cup {"value"}) |->
                       processed.df.index[
                           CleanRows(processed.df,
                                     SeqRange(AvailableFeatures(processed.df))
                                         \cup {"value"})[k]]],
          X |-> [col \in SeqRange(AvailableFeatures(processed.df)) |->
                   [k \in DOMAIN CleanRows(processed.df,
                                           SeqRange(AvailableFeatures(processed.df))
                                               \cup {"value"}) |->
                       processed.df.cols[col][
                           CleanRows(processed.df,
                                     SeqRange(AvailableFeatures(processed.df))
                                         \cup {"value"})[k]]]],
          y |-> [k \in DOMAIN CleanRows(processed.df,
                                        SeqRange(AvailableFeatures(processed.df))
                                            \cup {"value"}) |->
                   processed.df.cols["value"][
                       CleanRows(processed.df,
                                 SeqRange(AvailableFeatures(processed.df))
                                     \cup {"value"})[k]]]]

\* prepare_training_data(df): process_dataframe is called with its defaults,
\* target_column=None and fit_transformers=True (line 163)
PrepareTrainingData ==
    /\ \E df \in TrainingTables,
          region \in (IF settings.outlier = "isolation_forest" THEN Regions ELSE {"none"}) :
         \E processed \in {ProcessDataframe(df, NoTarget, TRUE, region, NewProcessor)} :
             prepared' = Prepared(df, processed)
    /\ UNCHANGED <<pm25, pm25_category>>
    /\ UNCHANGED otherThanFeat

BaseInitFixed ==
    /\ instance = NoInstance
    /\ filepath = AbsentFile
    /\ called = NoOutcome

ManagerInitFixed ==
    /\ manager = NewManager
    /\ prediction = NoPrediction

ApiInitFixed ==
    /\ app_state = {}
    /\ metadata_file = "missing"
    /\ request = NoRequest
    /\ response = NoResponse

FeatInitFixed ==
    /\ pm25 = <<>>
    /\ pm25_category = <<>>
    /\ prepared = NotPrepared

\* everything outside the training, processing and collecting parts
ServingInitFixed ==
    /\ BaseInitFixed
    /\ ManagerInitFixed
    /\ ApiInitFixed
    /\ FeatInitFixed

CollInitFixed ==
    /\ cphase = "start"
    /\ next_city = 1
    /\ city = NoCity
    /\ stations_cache = FALSE
    /\ cresults = EmptyDict
    /\ started = {}
    /\ finished = {}
    /\ outcomes = EmptyDict
    /\ locations = NoLocations
    /\ consumed = NotConsumed

TrainInitFixed ==
    /\ models = EmptyDict
    /\ pending = <<>>
    /\ best_model_name = None
    /\ best_rmse = Inf
    /\ result = NoResult
    /\ tphase = "start"

ProcInitFixed ==
    /\ settings = DefaultSettings
    /\ scalers = EmptyDict
    /\ imputers = EmptyDict
    /\ outlier_detectors = EmptyDict
    /\ feature_stats = EmptyDict
    /\ fitted = FALSE
    /\ call = IdleCall
    /\ file = NoFile
    /\ restored = FreshProcessor

----------------------------------------------------------------------------
(* Specifications *)

\* the trainer
InitTrain ==
    /\ TrainInitFixed
    /\ samples \in SampleCounts
    /\ output_dir \in {EmptyDict, PreviousArtifacts}
    /\ mphase = "training"
    /\ ProcInitFixed
    /\ StepInitFixed
    /\ cities = <<>>
    /\ CollInitFixed
    /\ ServingInitFixed

NextTrain ==
    \/ NoTrainingData
    \/ TrainCandidates
    \/ StartSelection
    \/ SelectStep
    \/ BuildResult
    \/ AbortTraining
    \/ MakeOutputDir
    \/ DumpModel
    \/ WriteMetadata

SpecTrain == InitTrain /\ [][NextTrain]_vars

\* the data processor, under each settings of SettingsDomain
Init ==
    /\ TrainInitFixed
    /\ MainInitFixed
    /\ settings \in SettingsDomain
    /\ scalers = EmptyDict
    /\ imputers = EmptyDict
    /\ outlier_detectors = EmptyDict
    /\ feature_stats = EmptyDict
    /\ fitted = FALSE
    /\ call = IdleCall
    /\ file = NoFile
    /\ restored = FreshProcessor
    /\ StepInitFixed
    /\ cities = <<>>
    /\ CollInitFixed
    /\ ServingInitFixed

Next ==
    \/ ProcessDataFrame
    \/ ProcessAgain
    \/ Release
    \/ SaveTransformers
    \/ LoadTransformers

Spec == Init /\ [][Next]_vars

\* the outlier steps on their own
InitSteps ==
    /\ TrainInitFixed
    /\ MainInitFixed
    /\ ProcInitFixed
    /\ StepInitFixed
    /\ cities = <<>>
    /\ CollInitFixed
    /\ ServingInitFixed

NextSteps == ApplyIqr \/ ApplyZscore \/ ForgetStep

SpecSteps == InitSteps /\ [][NextSteps]_vars

\* the collectors, for each list of cities
InitCollect ==
    /\ TrainInitFixed
    /\ MainInitFixed
    /\ ProcInitFixed
    /\ StepInitFixed
    /\ cities \in CityLists
    /\ CollInitFixed
    /\ ServingInitFixed

NextCollect ==
    \/ BuildTasks
    \/ StartCity
    \/ OpenAQAnswers
    \/ StationsAnswer
    \/ InmetAnswers
    \/ RequestBlocks
    \/ FinishCity
    \/ ReturnResults
    \/ CallGetLocations
    \/ CollectTrainingData
    \/ CollectCombinedData

SpecCollect == InitCollect /\ [][NextCollect]_vars

\* the model objects, over each file the path may hold at first
InitModels ==
    /\ TrainInitFixed
    /\ MainInitFixed
    /\ ProcInitFixed
    /\ StepInitFixed
    /\ cities = <<>>
    /\ CollInitFixed
    /\ instance = NoInstance
    /\ filepath \in FilesBefore
    /\ called = NoOutcome
    /\ ManagerInitFixed
    /\ ApiInitFixed
    /\ FeatInitFixed

NextModels ==
    \/ Construct
    \/ TrainModel
    \/ SaveModel
    \/ LoadModel
    \/ DropModel

SpecModels == InitModels /\ [][NextModels]_vars

\* the model manager of the application, over each file the production path may hold
InitManager ==
    /\ TrainInitFixed
    /\ MainInitFixed
    /\ ProcInitFixed
    /\ StepInitFixed
    /\ cities = <<>>
    /\ CollInitFixed
    /\ instance = NoInstance
    /\ filepath \in FilesBefore
    /\ called = NoOutcome
    /\ ManagerInitFixed
    /\ ApiInitFixed
    /\ FeatInitFixed

NextManager ==
    \/ LoadModels
    \/ ManagerPredict
    \/ ReplaceProductionFile

SpecManager == InitManager /\ [][NextManager]_vars

\* the API, from before the application has started
InitApi ==
    /\ TrainInitFixed
    /\ MainInitFixed
    /\ ProcInitFixed
    /\ StepInitFixed
    /\ cities = <<>>
    /\ CollInitFixed
    /\ ServingInitFixed

NextApi ==
    \/ Lifespan
    \/ GetMetrics
    \/ ChangeMetadataFile
    \/ PredictAirQuality
    \/ PredictBatchAirQuality
    \/ GetHistoricalDataRoute

SpecApi == InitApi /\ [][NextApi]_vars

\* the pollution features, from each 'pm25' column of one row
InitFeatures ==
    /\ TrainInitFixed
    /\ MainInitFixed
    /\ ProcInitFixed
    /\ StepInitFixed
    /\ cities = <<>>
    /\ CollInitFixed
    /\ BaseInitFixed
    /\ ManagerInitFixed
    /\ ApiInitFixed
    /\ pm25 \in {<<v>> : v \in Pm25Values}
    /\ pm25_category = <<>>
    /\ prepared = NotPrepared

NextFeatures ==
    \/ CreatePollutionFeatures
    \/ NextTable

SpecFeatures == InitFeatures /\ [][NextFeatures]_vars

\* the preparation of the training data, under each setting of the processor
InitPrepare == Init

NextPrepare == PrepareTrainingData

SpecPrepare == InitPrepare /\ [][NextPrepare]_vars

\* the same, the event loop taking every step of the manager that is ready
\* (lines 464-487), while a remote server answers when it pleases
SpecCollectLoop ==
    /\ SpecCollect
    /\ WF_vars(BuildTasks)
    /\ WF_vars(StartCity)
    /\ WF_vars(FinishCity)
    /\ WF_vars(ReturnResults)

\* the same, every step that can be taken being taken eventually: the event
\* loop runs the coroutine, and a remote server that answers does answer
SpecCollectFair == SpecCollect /\ WF_vars(NextCollect)

----------------------------------------------------------------------------
(* Properties of train_and_evaluate_models (checked under SpecTrain) *)

TestRmse(name) == models[name].metrics.test_rmse

\* the candidate with the lowest test RMSE, the first of them in the order of
\* models.items()
FirstLowest ==
    ModelOrder[CHOOSE i \in 1..Len(ModelOrder) :
                 /\ \A j \in 1..Len(ModelOrder) : TestRmse(ModelOrder[i]) <= TestRmse(ModelOrder[j])
                 /\ \A j \in 1..(i - 1) : TestRmse(ModelOrder[i]) < TestRmse(ModelOrder[j])]

\* C1: for every pair of test RMSE values the call ends with the candidate of
\* the lowest test RMSE as the winner, and with the first one encountered when
\* the two values are equal.
C1_WinnerIsFirstLowest ==
    tphase \in {"returned", "raised"} =>
        /\ tphase = "returned"
        /\ result.winner = FirstLowest

\* C2: every call that returns has a winner among the trained candidates, the
\* returned model is the fitted estimator of that candidate, and
\* metrics[winner] is metrics['all_models'][winner], whatever the test RMSE
\* values are (+inf included).
C2_ReturnedWinnerIsCandidate ==
    tphase = "returned" =>
        /\ result.winner \in Candidates
        /\ result.model = models[result.winner].model
        /\ result.model = FittedEstimator(result.winner)
        /\ result.winner \in DOMAIN result.metrics
        /\ result.metrics[result.winner] = result.metrics["all_models"][result.winner]

\* a call returned although a candidate's test RMSE is +inf
C2_ReturnedWithNonFinite ==
    /\ tphase = "returned"
    /\ \E n \in Candidates : TestRmse(n) = Inf
    /\ \E n \in Candidates : TestRmse(n) # Inf /\ result.winner = n

----------------------------------------------------------------------------
(* Properties of DataProcessor.process_dataframe (checked under Spec) *)

\* the three strategy names are ones the code knows
Recognized ==
    /\ settings.missing \in MissingStrategies
    /\ settings.outlier \in OutlierMethods
    /\ settings.scaling \in ScalingMethods

\* the numeric columns of df that a call with this target processes
ProcessedColumns(df, target_column) ==
    {c \in DOMAIN df.cols \cap NumericNames : c # target_column}

\* two numbers equal up to the rounding of a few operations
Close(x, y) == IF x = NaN \/ y = NaN THEN x = y ELSE Abs(x - y) <= Unit \div 20

\* C3: a call with fit_transformers=False leaves scalers, imputers,
\* outlier_detectors and feature_stats exactly as they were before it, for
\* every column, whether or not a transformer is stored for it.
C3_NoRefitWithoutFit ==
    [][(call'.kind # "idle" /\ ~call'.fit) =>
          UNCHANGED <<scalers, imputers, outlier_detectors, feature_stats>>]_vars

\* a call with fit_transformers=False returned after fitting temporary
\* transformers for a column that has none stored
C3_ReturnedWithoutStoredTransformer ==
    /\ call.kind = "returned"
    /\ ~call.fit
    /\ Recognized
    /\ \E c \in ProcessedColumns(call.df, call.target) :
         /\ HasNaN(call.df.cols[c])
         /\ Valid(call.df.cols[c]) # <<>>
         /\ c \notin DOMAIN scalers
         /\ c \notin DOMAIN imputers
         /\ call.out.cols[c] # call.df.cols[c]

\* C4: after a fit, two inference tables processed with fit_transformers=False
\* map a cell with the same value in the same column to the same output value
\* (up to rounding).
\* Stated for the outlier methods the model computes exactly: the table of the
\* last call is compared with every other input table, processed by the same
\* processor.
C4_SameValueSameOutput ==
    (fitted /\ call.kind = "returned" /\ ~call.fit /\ ~call.again
        /\ Recognized /\ settings.outlier # "isolation_forest") =>
        \A t2 \in InputTables :
            \A r2 \in {ProcessDataframe(t2, call.target, FALSE, "none", Transformers)} :
                ~r2.err =>
                    \A c \in ProcessedColumns(call.df, call.target) :
                        \A i \in 1..Len(call.df.index), j \in 1..Len(t2.index) :
                            (call.df.cols[c][i] # NaN /\ call.df.cols[c][i] = t2.cols[c][j]) =>
                                Close(call.out.cols[c][i], r2.df.cols[c][j])

\* C5: under every recognized MISSING_VALUE_STRATEGY and in both fit modes the
\* table a call returns has no NaN in a numeric column other than the target.
C5_NoMissingInOutput ==
    (call.kind = "returned" /\ Recognized) =>
        \A c \in ProcessedColumns(call.df, call.target) : ~HasNaN(call.out.cols[c])

\* C6: the table a call returns has the index of its input, and every column
\* of it has one value per row of the input.
C6_SameRows ==
    call.kind = "returned" =>
        /\ call.out.index = call.df.index
        /\ \A c \in DOMAIN call.out.cols : Len(call.out.cols[c]) = Len(call.df.index)

\* a call returned under the 'drop' strategy on a table with missing numbers
C6_ReturnedUnderDrop ==
    /\ call.kind = "returned"
    /\ settings.missing = "drop"
    /\ HasNaN(call.df.cols["temperatura"])
    /\ Len(call.df.index) = MaxRows

\* C7: for a numeric target column of the input, the returned table holds the
\* input's values in that column (up to rounding), and the call stores no
\* transformer under the target's name.
C7_TargetUntouched ==
    [][(call'.kind = "returned" /\ call'.target \in DOMAIN call'.df.cols \cap NumericNames) =>
          /\ \A i \in 1..Len(call'.df.index) :
               Close(call'.out.cols[call'.target][i], call'.df.cols[call'.target][i])
          /\ \A d \in {<<scalers, scalers'>>, <<imputers, imputers'>>,
                       <<outlier_detectors, outlier_detectors'>>} :
               call'.target \in DOMAIN d[2] =>
                   (call'.target \in DOMAIN d[1] /\ d[1][call'.target] = d[2][call'.target])]_vars

\* C8: after a fit, a second pass with fit_transformers=False over the table
\* the first such pass returned leaves the values of every original column as
\* the first pass produced them (up to rounding).
C8_SecondPassChangesNothing ==
    (fitted /\ call.kind = "returned" /\ call.again /\ Recognized) =>
        \A c \in DOMAIN call.df.cols \ DerivedNames :
            \A i \in 1..Len(call.df.index) :
                IF c \in NumericNames
                THEN Close(call.out.cols[c][i], call.df.cols[c][i])
                ELSE call.out.cols[c][i] = call.df.cols[c][i]

\* C9: with an unknown name for one of the three strategies, a call of
\* process_dataframe raises instead of returning a table.
C9_UnknownStrategyRaises ==
    (call.kind # "idle" /\ ~Recognized) => call.kind = "raised"

\* C10: a call with fit_transformers=False, under a strategy that needs a
\* fitted imputer, on a fitted processor that stored no imputer for a column
\* with missing values, raises.
C10_MissingImputerRaises ==
    [][(/\ call'.kind # "idle"
        /\ ~call'.fit
        /\ fitted
        /\ Recognized
        /\ settings.missing \in {"mean", "median", "most_frequent", "knn"}
        /\ \E c \in ProcessedColumns(call'.df, call'.target) :
             HasNaN(call'.df.cols[c]) /\ c \notin DOMAIN imputers)
          => call'.kind = "raised"]_vars

----------------------------------------------------------------------------
(* Properties of the outlier steps (checked under SpecSteps) *)

\* the bounds of _handle_outliers_iqr for a series: Q1 - 1.5*IQR and Q3 + 1.5*IQR
IqrLower(s) == Quantile(s, 1, 4) - RDiv(3 * (Quantile(s, 3, 4) - Quantile(s, 1, 4)), 2)
IqrUpper(s) == Quantile(s, 3, 4) + RDiv(3 * (Quantile(s, 3, 4) - Quantile(s, 1, 4)), 2)

\* C11: after the IQR step every value of the output lies within
\* [Q1 - 1.5*IQR, Q3 + 1.5*IQR] of the input series; a value above the upper
\* bound has become the upper bound, a value below the lower bound the lower
\* bound, a value inside the bounds is unchanged (a missing value stays missing).
C11_IqrClipsToBounds ==
    step.kind = "iqr" =>
        /\ Len(step.out) = Len(step.series)
        /\ \A i \in 1..Len(step.series) :
             \A x \in {step.series[i]}, lo \in {IqrLower(step.series)}, hi \in {IqrUpper(step.series)} :
                 IF x = NaN THEN step.out[i] = NaN
                 ELSE /\ lo <= step.out[i] /\ step.out[i] <= hi
                      /\ x > hi => step.out[i] = hi
                      /\ x < lo => step.out[i] = lo
                      /\ (lo <= x /\ x <= hi) => step.out[i] = x

\* the IQR step clipped a value down to the upper bound and left another alone
C11_ClippedAbove ==
    /\ step.kind = "iqr"
    /\ \E i, j \in 1..Len(step.series) :
         /\ step.series[i] # NaN /\ step.series[i] > IqrUpper(step.series)
         /\ step.out[i] = IqrUpper(step.series)
         /\ step.series[j] # NaN /\ step.out[j] = step.series[j]

\* the rows of a series whose value is present and has |z| > 3
Flagged(s) == {i \in 1..Len(s) : s[i] # NaN /\ ZScoreAbove3(Valid(s), s[i])}

\* C12: the z-score step returns the series with the rows of |z| > 3 set to the
\* column median and every other row as it was, whatever the index labels.
C12_ZscoreReplacesFlagged ==
    step.kind = "zscore" =>
        /\ ~step.err
        /\ \A i \in 1..Len(step.series) :
             step.out[i] = IF i \in Flagged(step.series) THEN Median(step.series)
                           ELSE step.series[i]

----------------------------------------------------------------------------
(* Properties of save_transformers / load_transformers (checked under Spec) *)

Returned == cphase \in {"returned", "consumed"}

\* C14: when collect_multiple_cities has returned, its result has an entry for
\* every requested city, each with a 'pollution' and a 'weather' table; the
\* table of a source whose call failed is empty, and a source of a city that
\* answered rows has its rows whatever happened to the other cities
C14_EntryForEveryCity ==
    Returned =>
        \A i \in 1..Len(cities) :
            /\ cities[i] \in DOMAIN cresults
            /\ DOMAIN cresults[cities[i]] = {"pollution", "weather"}
            /\ "openaq" \in outcomes[cities[i]].failed => cresults[cities[i]].pollution = "empty"
            /\ "weather" \in outcomes[cities[i]].failed => cresults[cities[i]].weather = "empty"
            /\ "openaq" \in outcomes[cities[i]].rows => cresults[cities[i]].pollution = "rows"
            /\ "weather" \in outcomes[cities[i]].rows => cresults[cities[i]].weather = "rows"

\* two cities were requested, every call of the first failed and the second
\* has both tables
C14_OneFailedOneCollected ==
    /\ Returned
    /\ Len(cities) = 2
    /\ cities[1] # cities[2]
    /\ outcomes[cities[1]].failed = {"openaq", "weather"}
    /\ cresults[cities[1]] = [pollution |-> "empty", weather |-> "empty"]
    /\ cresults[cities[2]] = [pollution |-> "rows", weather |-> "rows"]

\* the answers that are a failure of the remote call or of the parsing of its
\* answer: the call failures, and the payloads of another shape than expected
FailedAnswers == CallFailures \cup {"results_null", "junk_results", "junk_data", "bad_payload"}

\* C15: for every failure of the remote call or of parsing its answer (network
\* error, HTTP error status, malformed or unexpected payload shape) the
\* collector method raises nothing and returns the empty value: get_locations
\* returns [], get_measurements and get_historical_data return an empty table
C15_FailureGivesEmpty ==
    /\ locations.answer \in FailedAnswers =>
            ~locations.raised /\ locations.value = "[]"
    /\ city.answer[1] = "openaq" /\ city.answer[2] \in FailedAnswers =>
            city.pollution = "empty"
    /\ city.answer[1] = "inmet" /\ city.answer[2] \in FailedAnswers =>
            city.weather = "empty"

\* C16: the per-city collections run concurrently: a slow city does not delay
\* the start of the others, so once the collections are awaited every
\* requested city is started, whether or not an earlier one has been answered
C16_EveryCityStarts ==
    \A i \in 1..MaxCities :
        (cphase = "awaiting" /\ i <= Len(cities)) ~> (i \in started)

\* C17: every network call of the collectors is bounded by a timeout, so a
\* remote server that never answers counts as no data and
\* collect_multiple_cities, once called, eventually returns
C17_EventuallyReturns == (cphase = "awaiting") ~> Returned

\* the cities whose merged rows are in the table collect_training_data returned
MergedCities == {consumed.rows[k] : k \in 1..Len(consumed.rows)}

\* C18: in collect_training_data and collect_combined_data a city with an
\* empty pollution or weather table is skipped: nothing is merged for it, it
\* contributes no rows and causes no error; the cities with both tables are
\* still merged; when no city has both tables collect_training_data returns
\* the empty table and raises nothing
C18_EmptyTablesSkipped ==
    cphase = "consumed" =>
        /\ \A name \in DOMAIN cresults :
               cresults[name].pollution = "empty" \/ cresults[name].weather = "empty" =>
                   /\ name \notin MergedCities
                   /\ <<name, "combined.csv">> \notin consumed.files
        /\ consumed.raised =>
               \E name \in DOMAIN cresults :
                   cresults[name].pollution # "empty" /\ cresults[name].weather # "empty"
        /\ \A name \in DOMAIN cresults :
               cresults[name] = [pollution |-> "rows", weather |-> "rows"] =>
                   /\ consumed.by = "collect_training_data" /\ ~consumed.raised =>
                          name \in MergedCities
                   /\ consumed.by = "collect_combined_data" =>
                          <<name, "combined.csv">> \in consumed.files
        /\ (\A name \in DOMAIN cresults :
                cresults[name].pollution = "empty" \/ cresults[name].weather = "empty") =>
               ~consumed.raised /\ consumed.rows = <<>>

\* collect_training_data has returned the rows of the second city alone, the
\* first having a pollution table and no weather table
C18_SkippedOneMergedOther ==
    /\ cphase = "consumed"
    /\ consumed.by = "collect_training_data"
    /\ Len(cities) = 2
    /\ cities[1] # cities[2]
    /\ cresults[cities[1]] = [pollution |-> "rows", weather |-> "empty"]
    /\ cresults[cities[2]] = [pollution |-> "rows", weather |-> "rows"]
    /\ ~consumed.raised
    /\ consumed.rows = <<cities[2]>>

\* the output directory holds the file, written by this run
WrittenByThisRun(name) == name \in DOMAIN output_dir /\ output_dir[name].run = ThisRun

\* C19: a training run that fails at any step (data generation, training,
\* writing the model bundle, writing the metadata) leaves no partial artifact:
\* after it the output directory holds no model.joblib of this run that is
\* incomplete or lacks the complete model.metadata.json of this run
C19_NoPartialArtifact ==
    mphase = "exited" /\ WrittenByThisRun("model.joblib") =>
        /\ output_dir["model.joblib"].complete
        /\ WrittenByThisRun("model.metadata.json")
        /\ output_dir["model.metadata.json"].complete

\* C20: a successful run has written exactly two files: model.joblib with the
\* winning estimator, the fitted scaler and the ordered feature names, and
\* model.metadata.json with the winner, the metrics of the winner and of all
\* candidates, the features, the sample counts and the time of training; the
\* features of the metadata are the feature names of the bundle, in the same
\* order, and the estimator of the bundle is the one of the winner named
C20_TwoArtifacts ==
    mphase = "saved" =>
        /\ {name \in DOMAIN output_dir : output_dir[name].run = ThisRun}
               = {"model.joblib", "model.metadata.json"}
        /\ \A name \in DOMAIN output_dir : output_dir[name].complete
        /\ \E bundle \in {output_dir["model.joblib"].content},
              metadata \in {output_dir["model.metadata.json"].content} :
               /\ DOMAIN bundle = {"model", "scaler", "feature_names"}
               /\ bundle.model = models[best_model_name].model
               /\ bundle.scaler = FittedScaler
               /\ bundle.feature_names = FeatureColumns
               /\ DOMAIN metadata = {"winner", "metrics", "features", "training_samples",
                                      "test_samples", "trained_at"}
               /\ metadata.winner = best_model_name
               /\ metadata.winner \in Candidates
               /\ metadata.metrics[metadata.winner] = models[metadata.winner].metrics
               /\ metadata.metrics["all_models"] = [n \in Candidates |-> models[n].metrics]
               /\ metadata.training_samples + metadata.test_samples = samples
               /\ metadata.test_samples = TestSamples(samples)
               /\ metadata.trained_at \in Timestamps
               /\ metadata.features = bundle.feature_names
               /\ bundle.model = FittedEstimator(metadata.winner)

\* a run on five samples has saved LinearRegression as the winner over the
\* files of an earlier run
C20_SavedLinearRegression ==
    /\ mphase = "saved"
    /\ samples = 5
    /\ WrittenByThisRun("model.joblib")
    /\ WrittenByThisRun("model.metadata.json")
    /\ output_dir["model.metadata.json"].content.winner = "LinearRegression"
    /\ output_dir["model.joblib"].content.model = FittedEstimator("LinearRegression")

\* C21: the files a finished training run has saved are immutable: no later
\* step of the system, a further training run on the same output directory
\* included, changes the content of a file an earlier run wrote in full
C21_SavedFilesImmutable ==
    [][\A name \in DOMAIN output_dir :
           output_dir[name].run = PreviousRun /\ output_dir[name].complete =>
               /\ name \in DOMAIN output_dir'
               /\ output_dir'[name].content = output_dir[name].content]_vars

\* a bundle that a save of this program wrote
SavedBundle == filepath.kind = "dict" /\ filepath.saved_by.class # "none"

\* C27 as stated: every bundle written by save comes from a model for which
\* train or load had completed before.
C27_SavedAfterTrainOrLoad ==
    SavedBundle => filepath.saved_by.completed \cap {"train", "load"} # {}

\* C27 amended: save on an untrained model raises and writes nothing; every
\* bundle written by save comes from a model for which train or load had
\* completed, or from a DummyModel, which is trained from its construction;
\* and no method resets is_trained of an object to false.
C27_SaveRefusesUntrained ==
    /\ [](SavedBundle =>
             \/ filepath.saved_by.completed \cap {"train", "load"} # {}
             \/ filepath.saved_by.class = "DummyModel")
    /\ [][/\ SaveModel /\ ~instance.is_trained => called'.raised /\ filepath' = filepath
          /\ instance.is_trained /\ instance'.class = instance.class =>
                 instance'.is_trained]_vars

\* an untrained AirQualityModel was asked to save, over a bundle that another
\* model had saved after its training
C27_UntrainedSaveRefused ==
    /\ called = [method |-> "save", raised |-> TRUE]
    /\ ~instance.is_trained
    /\ SavedBundle
    /\ "train" \in filepath.saved_by.completed
FallbackLogged == manager.logged = "Fallback para modelo dummy"

\* C29 as stated, its part on the registry: after a production load that
\* failed, models holds no 'production' entry.
C29_FailedLoadLeavesNoProduction ==
    FallbackLogged => "production" \notin DOMAIN manager.models

\* C29 amended: load_models returns without raising on every path, with
\* current_model set and is_loaded() true; a production load that fails
\* falls back to the dummy model and adds no 'production' entry to models
\* (an entry of an earlier, successful load_models stays as it was); before
\* load_models has run, is_loaded() is false and predict raises.
C29_LoadModelsGivesUsableModel ==
    /\ [](manager.logged # "none" => IsLoaded(manager))
    /\ [](manager.logged = "none" =>
             /\ ~IsLoaded(manager)
             /\ called.method = "predict" =>
                    prediction.raised = "ValueError: Nenhum modelo carregado")
    /\ [][LoadModels =>
            /\ ~called'.raised
            /\ filepath.kind # "absent" /\ LoadRaises(filepath) =>
                   /\ FallbackLogged'
                   /\ manager'.current_model = NewDummyModel
                   /\ "production" \in DOMAIN manager'.models =>
                          /\ "production" \in DOMAIN manager.models
                          /\ manager'.models["production"] = manager.models["production"]
            /\ filepath.kind = "absent" => manager'.current_model = NewDummyModel
            /\ ~LoadRaises(filepath) =>
                   manager'.current_model = Loaded(NewDummyModel, filepath)]_vars

\* the production file exists but does not load, and the manager of a first
\* load_models call holds the dummy model and no 'production' entry
C29_FallbackAfterFailedLoad ==
    /\ called.method = "load_models"
    /\ filepath.kind = "corrupt"
    /\ FallbackLogged
    /\ IsLoaded(manager)
    /\ DOMAIN manager.models = {"dummy"}
\* C23: when the current model has a feature_names list and the input of
\* ModelManager.predict lacks one of those features, the prediction fails
\* with an error and returns no value; when all are present, the columns
\* reach the estimator in the order of feature_names
C23_MissingFeatureFails ==
    called.method = "predict" /\ IsLoaded(manager)
    /\ manager.current_model.feature_names # <<>> =>
        IF SeqRange(manager.current_model.feature_names)
               \ DOMAIN prediction.climate_data # {}
        THEN prediction.raised # ""
        ELSE prediction.raised = "" =>
                 prediction.columns = manager.current_model.feature_names
\* the texts that are JSON documents
JsonDocuments ==
    {"{\"winner\": \"RandomForest\", \"test_rmse\": 1.5}",
     "{ \"winner\" : \"LinearRegression\" }",
     "{}"}

\* C22: the metrics endpoint answers 200 with the metadata of the file when
\* model.metadata.json exists and holds valid JSON, 404 when the file is
\* missing, and 500 when its content is malformed; the 404 is not turned
\* into a 500 by the generic exception handling
C22_MetricsStatusCodes ==
    [][GetMetrics =>
         /\ response'.route = "/metrics"
         /\ metadata_file = "missing" => response'.status_code = 404
         /\ metadata_file \in JsonDocuments =>
                /\ response'.status_code = 200
                /\ response'.body = JsonLoad(metadata_file).value
         /\ metadata_file \in MetadataTexts \ JsonDocuments =>
                response'.status_code = 500]_vars

\* the file is missing and the endpoint has answered 404
C22_MissingAnswered404 ==
    /\ response.route = "/metrics"
    /\ metadata_file = "missing"
    /\ response.status_code = 404

\* C30: POST /predict answers 503 when no model manager is attached to the
\* application state; the 503 raised in the handler reaches the client as 503
C30_NoManagerGives503 ==
    [][PredictAirQuality /\ "model_manager" \notin app_state
       /\ ValidClimate(request'.dados_climaticos) =>
           response'.status_code = 503]_vars

\* C25: every accepted batch request of n records is answered with
\* total_predicoes = n and n predictions in the order of the input, and when
\* datas_predicao is given prediction i carries datas_predicao[i]
C25_BatchAnswersEveryRecord ==
    response.route = "/predict/batch" /\ ValidBatch(request) =>
        /\ response.status_code = 200
        /\ response.body.total_predicoes = Len(request.dados_climaticos)
        /\ Len(response.body.predicoes) = Len(request.dados_climaticos)
        /\ \A i \in DOMAIN response.body.predicoes :
             /\ response.body.predicoes[i].valor = 20 * Unit + (i - 1) * Unit
             /\ request.datas_predicao.given =>
                    /\ i \in DOMAIN request.datas_predicao.dates
                    /\ response.body.predicoes[i].data_predicao
                           = request.datas_predicao.dates[i]

\* what the schemas are to enforce
BatchConstraints(req) ==
    /\ Len(req.dados_climaticos) \in MinItems..MaxItems
    /\ \A i \in DOMAIN req.dados_climaticos : ValidClimate(req.dados_climaticos[i])
    /\ req.datas_predicao.given =>
           Len(req.datas_predicao.dates) = Len(req.dados_climaticos)

HistoricalConstraints(req) ==
    /\ req.data_fim >= req.data_inicio
    /\ req.poluentes.given => SeqRange(req.poluentes.names) \subseteq ValidPoluentes

\* C26: a request is answered 422, before its handler runs, exactly when it
\* breaks a constraint: a batch request whose datas_predicao has another
\* length than dados_climaticos (an empty list of dates included), a
\* historical request with data_fim before data_inicio or with a pollutant
\* outside the six, a climate record lacking a field or out of range
C26_ValidationEnforcesConstraints ==
    /\ response.route = "/predict/batch" =>
           (response.status_code # 422 <=> BatchConstraints(request))
    /\ response.route = "/historical" =>
           (response.status_code # 422 <=> HistoricalConstraints(request))
    /\ response.route = "/predict" =>
           (response.status_code # 422 <=> ValidClimate(request.dados_climaticos))
LabelIndex(label) == CHOOSE i \in 1..Len(Labels) : Labels[i] = label

\* C24: create_pollution_features gives every pm25 value v >= 0, zero and
\* each breakpoint included, exactly one of the six labels, and the labels
\* are monotone in v: a larger value never gets a lower label
C24_EveryValueBucketed ==
    \A i \in DOMAIN pm25_category :
        pm25[i] # NaN /\ pm25[i] >= 0 =>
            /\ pm25_category[i] \in SeqRange(Labels)
            /\ \A j \in DOMAIN pm25_category :
                 pm25[j] # NaN /\ pm25[j] >= pm25[i]
                 /\ pm25_category[j] \in SeqRange(Labels) =>
                     LabelIndex(pm25_category[j]) >= LabelIndex(pm25_category[i])
\* the position in the table of the row with an index label
RowOf(df, label) == CHOOSE i \in DOMAIN df.index : df.index[i] = label

\* C28: the y prepare_training_data returns holds, for each retained row,
\* the raw 'value' of that row in the input table: the processor's
\* imputation, clipping and scaling have touched the features only
C28_TargetIsRawValue ==
    prepared.done /\ ~prepared.raised =>
        \A k \in DOMAIN prepared.y :
            /\ \E i \in DOMAIN prepared.df.index : prepared.df.index[i] = prepared.index[k]
            /\ prepared.y[k]
                   = prepared.df.cols["value"][RowOf(prepared.df, prepared.index[k])]
====
